---- MODULE Spec2Model ----
(***************************************************************************)
(* RetirementCalc data scripts: the ZIP-level cost-of-living build.        *)
(*                                                                         *)
(*   Spec     generate_full_dataset.py: process_rpp_data, the crosswalk    *)
(*            de-duplication and the fallback join of                      *)
(*            generate_comprehensive_dataset, on data.                     *)
(*   SpecRpp  process_rpp_data record by record, on raw BEA records.       *)
(*   SpecRun  the runs of generate_full_dataset.py and                     *)
(*            build_cost_of_living_dataset.py as processes: credential,    *)
(*            network requests, download cache, output files, exit status. *)
(*   SpecCache download_hud_crosswalk called by one run after another.     *)
(*   SpecOpt  optimize_dataset.py: create_core_dataset and                 *)
(*            create_state_shards, on datasets.                            *)
(*   SpecPipe csv_to_json.py and optimize_dataset.py as processes: input   *)
(*            file, conversion, output files, exit status.                 *)
(*   SpecRerun optimize_dataset.py run again and again over a dataset      *)
(*            file that changes, the output directories being kept.        *)
(*   SpecEnh  build_enhanced_dataset.py: the hard-coded tables,            *)
(*            build_comprehensive_dataset and the main block's tests.      *)
(*                                                                         *)
(* Text is a sequence of one-character strings, so that zfill and slicing  *)
(* are computed; a price parity is an integer number of tenths (89.5 is    *)
(* 895).                                                                   *)
(***************************************************************************)
EXTENDS Integers, Sequences, FiniteSets, TLC

VARIABLES
    pc,            \* position of the running script
    state_df,      \* state-level BEA records fetched (SARPP)
    msa_df,        \* metro-level BEA records fetched (MARPP)
    row,           \* the record the loop of process_rpp_data holds
    n_rows,        \* records process_rpp_data has iterated over
    rpp_lookup,    \* geography code -> partial record of components
    zip_df,        \* the crosswalk frame: as read, then de-duplicated
    i,             \* rows of zip_df the join loop has handled
    final_data,    \* ZIP -> resolved record
    matched_cbsa,
    matched_state,
    estimated,
    script,        \* the script that runs
    env_key,       \* environment variable BEA_API_KEY
    BEA_API_KEY,   \* the module-level credential
    requests,      \* network requests issued, in order
    responses,     \* what the statistical source answered, per table
    hud_csv,       \* rows of the CSV inside the HUD crosswalk archive
    cache_file,    \* whether the cached crosswalk archive exists
    cache_bytes,   \* rows of the CSV inside the cached archive
    files,         \* output path -> content
    exit_code,     \* exit status of the process, once it has ended
    message,       \* the error the main block has printed
    csv_file,      \* data/col_by_zip.csv: its lines, or NoFile
    csv_df,        \* the frame df csv_to_json has read
    zip_data,      \* the dictionary csv_to_json builds
    full_data,     \* the dataset optimize_dataset has loaded
    max_size,      \* the cap create_core_dataset is called with
    core_data,     \* what create_core_dataset returned
    state_shards,  \* what create_state_shards returned
    n_written      \* output files the script has written so far

rppVars == <<row, n_rows>>
frameVars == <<state_df, msa_df>>
joinVars == <<zip_df, i, final_data, matched_cbsa, matched_state, estimated>>
envVars == <<script, env_key, BEA_API_KEY, hud_csv>>
netVars == <<requests, responses, cache_file, cache_bytes>>
outVars == <<files, exit_code>>
pipeVars ==
    <<message, csv_file, csv_df, zip_data, full_data, max_size, core_data, state_shards,
      n_written>>
vars == <<pc, rpp_lookup, rppVars, frameVars, joinVars, envVars, netVars, outVars, pipeVars>>

----------------------------------------------------------------------------
(* Bounds *)

MaxRows == 2       \* crosswalk rows read
MaxRecs == 3       \* raw records process_rpp_data iterates over in SpecRpp

----------------------------------------------------------------------------
(* Text *)

Digits == <<"0", "1", "2", "3", "4", "5", "6", "7", "8", "9">>

IsDigit(c) == \E d \in 1..10 : Digits[d] = c

DigitVal(c) == (CHOOSE d \in 1..10 : Digits[d] = c) - 1

\* str.zfill(width): left-pad with "0" up to width, never truncate
zfill(s, width) ==
    IF Len(s) >= width THEN s
    ELSE [k \in 1..(width - Len(s)) |-> "0"] \o s

\* s[:n]
Prefix(s, n) == SubSeq(s, 1, IF Len(s) < n THEN Len(s) ELSE n)

\* str.replace(',', '')
RECURSIVE StripCommas(_)
StripCommas(s) ==
    IF s = <<>> THEN <<>>
    ELSE IF Head(s) = "," THEN StripCommas(Tail(s))
    ELSE <<Head(s)>> \o StripCommas(Tail(s))

RECURSIVE DigitsValue(_)
DigitsValue(s) ==
    IF s = <<>> THEN 0
    ELSE 10 * DigitsValue(SubSeq(s, 1, Len(s) - 1)) + DigitVal(s[Len(s)])

AllDigits(s) == \A k \in 1..Len(s) : IsDigit(s[k])

\* float(text) on decimal numerals with at most one fractional digit: the
\* value in tenths, or a ValueError.  "12", "89.5", "5." and ".5" are numerals;
\* "", "." and text with any other character are not.
ParseFloat(s) ==
    LET dots == {k \in 1..Len(s) : s[k] = "."} IN
    IF dots = {}
    THEN IF s # <<>> /\ AllDigits(s)
         THEN [ok |-> TRUE, value |-> 10 * DigitsValue(s)]
         ELSE [ok |-> FALSE, value |-> 0]
    ELSE LET d == CHOOSE k \in dots : TRUE
             whole == SubSeq(s, 1, d - 1)
             frac == SubSeq(s, d + 1, Len(s))
         IN IF Cardinality(dots) = 1 /\ AllDigits(whole) /\ AllDigits(frac)
               /\ Len(frac) <= 1 /\ Len(whole) + Len(frac) > 0
            THEN [ok |-> TRUE, value |-> 10 * DigitsValue(whole) + DigitsValue(frac)]
            ELSE [ok |-> FALSE, value |-> 0]

\* lexicographic order of text, as sort_values orders an object column
RECURSIVE TextLess(_, _)
TextLess(a, b) ==
    IF b = <<>> THEN FALSE
    ELSE IF a = <<>> THEN TRUE
    ELSE IF Head(a) = Head(b) THEN TextLess(Tail(a), Tail(b))
    ELSE DigitVal(Head(a)) < DigitVal(Head(b))

\* a missing cell of a data frame (NaN), and Python's None
NaN == <<"NaN">>
None == <<"None">>

----------------------------------------------------------------------------
(* process_rpp_data *)

Fields == {"rpp_all", "rpp_goods", "rpp_housing", "rpp_other"}

NA == <<"(", "N", "A", ")">>

\* goods and rents exchanged
LineField_Swapped(line_code) ==
    CASE line_code = "1" -> "rpp_all"
      [] line_code = "2" -> "rpp_housing"
      [] line_code = "3" -> "rpp_goods"
      [] line_code = "4" -> "rpp_other"
      [] OTHER -> "none"

\* line code -> component (the if/elif chain)
LineField(line_code) ==
    CASE line_code = "1" -> "rpp_all"
      [] line_code = "2" -> "rpp_goods"
      [] line_code = "3" -> "rpp_housing"
      [] line_code = "4" -> "rpp_other"
      [] OTHER -> "none"

\* dict d with d[k] = v
Put(d, k, v) == [x \in DOMAIN d \cup {k} |-> IF x = k THEN v ELSE d[x]]

EmptyDict == [x \in {} |-> 0]

\* the except clause of the loop body: ValueError is caught (continue)
Caught(exc) == exc = "ValueError"

\* One iteration of a loop of process_rpp_data over a record, with the
\* geography code padded to `width` (2 for state_df, 5 for msa_df): the
\* lookup after it and the exception that leaves the loop, if any.
ProcessRecord(lookup, rec, width) ==
    LET geo_fips == zfill(rec.GeoFips, width)
        line_code == rec.LineCode
        data_value == rec.DataValue
    IN IF geo_fips # <<>> /\ line_code # "" /\ data_value # NA
       THEN LET parsed == ParseFloat(StripCommas(data_value)) IN
            IF ~parsed.ok
            THEN [lookup |-> lookup,
                  raised |-> IF Caught("ValueError") THEN "none" ELSE "ValueError"]
            ELSE LET entered == IF geo_fips \in DOMAIN lookup THEN lookup
                                ELSE Put(lookup, geo_fips, EmptyDict)
                     field == LineField(line_code)
                 IN [lookup |-> IF field = "none" THEN entered
                                ELSE Put(entered, geo_fips,
                                         Put(entered[geo_fips], field, parsed.value)),
                     raised |-> "none"]
       ELSE [lookup |-> lookup, raised |-> "none"]

\* a whole loop over a data frame (no iteration when the frame is empty)
RECURSIVE ProcessFrame(_, _, _)
ProcessFrame(lookup, df, width) ==
    IF df = <<>> THEN lookup
    ELSE ProcessFrame(ProcessRecord(lookup, Head(df), width).lookup, Tail(df), width)

process_rpp_data(sdf, mdf) == ProcessFrame(ProcessFrame(EmptyDict, sdf, 2), mdf, 5)

----------------------------------------------------------------------------
(* The crosswalk: sort_values, groupby('ZIP').first() *)

\* sort order of ['ZIP', 'RES_RATIO'], ascending = [True, False]
RowBefore(a, b) ==
    \/ TextLess(a.ZIP, b.ZIP)
    \/ a.ZIP = b.ZIP /\ a.RES_RATIO > b.RES_RATIO

\* a row put into a sorted frame behind every row it does not precede
RECURSIVE InsertRow(_, _)
InsertRow(sorted, r) ==
    IF sorted = <<>> THEN <<r>>
    ELSE IF RowBefore(r, Head(sorted)) THEN <<r>> \o sorted
    ELSE <<Head(sorted)>> \o InsertRow(Tail(sorted), r)

\* DataFrame.sort_values on two keys: a stable sort, rows with equal keys
\* keep the order of the frame
RECURSIVE sort_values(_)
sort_values(df) ==
    IF df = <<>> THEN <<>>
    ELSE InsertRow(sort_values(SubSeq(df, 1, Len(df) - 1)), df[Len(df)])

\* GroupBy.first() on one column of a group: the first cell that is not
\* missing, a missing cell when all are
RECURSIVE FirstNotNa(_, _)
FirstNotNa(group, column) ==
    IF group = <<>> THEN NaN
    ELSE IF Head(group)[column] # NaN THEN Head(group)[column]
    ELSE FirstNotNa(Tail(group), column)

\* the row first() makes of a group, column by column (RES_RATIO is never
\* missing in the rows modelled; column STATE, a reserved word, is State)
FirstOfGroup(group) ==
    [ZIP       |-> Head(group).ZIP,
     COUNTY    |-> FirstNotNa(group, "COUNTY"),
     State     |-> FirstNotNa(group, "State"),
     CBSA      |-> FirstNotNa(group, "CBSA"),
     RES_RATIO |-> Head(group).RES_RATIO]

\* groupby('ZIP').first().reset_index() on a frame sorted by ZIP: one row
\* per ZIP, groups in key order
RECURSIVE groupby_first(_)
groupby_first(df) ==
    IF df = <<>> THEN <<>>
    ELSE LET z == Head(df).ZIP
             group == SelectSeq(df, LAMBDA r : r.ZIP = z)
             others == SelectSeq(df, LAMBDA r : r.ZIP # z)
         IN <<FirstOfGroup(group)>> \o groupby_first(others)

\* the frame sorted, the groupby left out
Deduplicate_NoGroupBy(df) == sort_values(df)

\* lines 173-174: keep the highest residential ratio per ZIP
Deduplicate(df) == groupby_first(sort_values(df))

----------------------------------------------------------------------------
(* The fallback join of generate_comprehensive_dataset *)

NationalAverage == 1000     \* 100.0

\* state, rpp_all, rpp_housing, rpp_goods, rpp_other
StateEstimateRows == <<
    <<"A", "L", 865, 790, 910, 895>>,
    <<"A", "K", 1250, 1400, 1180, 1200>>,
    <<"A", "Z", 970, 980, 965, 980>>,
    <<"A", "R", 850, 770, 900, 880>>,
    <<"C", "A", 1420, 1890, 1145, 1275>>,
    <<"C", "O", 1050, 1150, 990, 1030>>,
    <<"C", "T", 1150, 1350, 1050, 1120>>,
    <<"D", "E", 1020, 1080, 980, 1015>>,
    <<"F", "L", 960, 960, 965, 970>>,
    <<"G", "A", 955, 950, 960, 970>>,
    <<"H", "I", 1500, 1950, 1250, 1350>>,
    <<"I", "D", 940, 920, 950, 960>>,
    <<"I", "L", 1080, 1200, 1010, 1060>>,
    <<"I", "N", 885, 830, 925, 915>>,
    <<"I", "A", 900, 855, 930, 925>>,
    <<"K", "S", 890, 840, 925, 920>>,
    <<"K", "Y", 880, 820, 920, 910>>,
    <<"L", "A", 935, 910, 955, 960>>,
    <<"M", "E", 1055, 1130, 1000, 1045>>,
    <<"M", "D", 1120, 1300, 1030, 1090>>,
    <<"M", "A", 1175, 1410, 1055, 1145>>,
    <<"M", "I", 895, 850, 930, 920>>,
    <<"M", "N", 1020, 1095, 965, 1010>>,
    <<"M", "S", 840, 750, 890, 870>>,
    <<"M", "O", 905, 860, 935, 930>>,
    <<"M", "T", 950, 930, 960, 970>>,
    <<"N", "E", 910, 870, 935, 935>>,
    <<"N", "V", 980, 1000, 970, 985>>,
    <<"N", "H", 1030, 1100, 990, 1020>>,
    <<"N", "J", 1200, 1500, 1070, 1160>>,
    <<"N", "M", 925, 890, 945, 950>>,
    <<"N", "Y", 1250, 1650, 1090, 1180>>,
    <<"N", "C", 945, 930, 955, 960>>,
    <<"N", "D", 960, 940, 970, 980>>,
    <<"O", "H", 915, 880, 940, 940>>,
    <<"O", "K", 870, 800, 915, 900>>,
    <<"O", "R", 1100, 1250, 1025, 1075>>,
    <<"P", "A", 1085, 1180, 1020, 1070>>,
    <<"R", "I", 1100, 1250, 1020, 1080>>,
    <<"S", "C", 950, 940, 955, 965>>,
    <<"S", "D", 930, 900, 950, 955>>,
    <<"T", "N", 875, 810, 920, 905>>,
    <<"T", "X", 940, 920, 950, 955>>,
    <<"U", "T", 985, 1010, 975, 990>>,
    <<"V", "T", 1060, 1150, 1010, 1050>>,
    <<"V", "A", 990, 1045, 950, 995>>,
    <<"W", "A", 1180, 1450, 1060, 1150>>,
    <<"W", "V", 860, 780, 910, 890>>,
    <<"W", "I", 965, 970, 965, 975>>,
    <<"W", "Y", 920, 880, 940, 945>>,
    <<"D", "C", 1300, 1700, 1100, 1250>>
>>

state_estimates ==
    [s \in {<<StateEstimateRows[k][1], StateEstimateRows[k][2]>> :
                k \in 1..Len(StateEstimateRows)} |->
        LET e == StateEstimateRows[CHOOSE k \in 1..Len(StateEstimateRows) :
                     <<StateEstimateRows[k][1], StateEstimateRows[k][2]>> = s]
        IN [rpp_all |-> e[3], rpp_housing |-> e[4],
            rpp_goods |-> e[5], rpp_other |-> e[6]]]

\* the default taken as a ratio (1.0) instead of an index (100.0)
NationalRecord_Ratio ==
    [rpp_all |-> 10, rpp_housing |-> 10, rpp_goods |-> 10, rpp_other |-> 10]

NationalRecord ==
    [rpp_all |-> NationalAverage, rpp_housing |-> NationalAverage,
     rpp_goods |-> NationalAverage, rpp_other |-> NationalAverage]

\* dict.get(key, default)
Get(d, k, default) == IF k \in DOMAIN d THEN d[k] ELSE default

\* line 243
CbsaCode(r) == IF r.CBSA # NaN THEN r.CBSA ELSE None

\* truth value of cbsa_code: None and the empty string are false
Truthy(code) == code # None /\ code # <<>>

\* the state tier tried before the metro tier
Resolve_StateFirst(lookup, r) ==
    LET state == r.State
        county_fips == zfill(r.COUNTY, 5)
        cbsa_code == CbsaCode(r)
    IN IF Prefix(county_fips, 2) \in DOMAIN lookup
       THEN [tier |-> "state", rpp_data |-> lookup[Prefix(county_fips, 2)]]
       ELSE IF Truthy(cbsa_code) /\ cbsa_code \in DOMAIN lookup
       THEN [tier |-> "cbsa", rpp_data |-> lookup[cbsa_code]]
       ELSE IF state \in DOMAIN state_estimates
       THEN [tier |-> "estimate", rpp_data |-> state_estimates[state]]
       ELSE [tier |-> "estimate", rpp_data |-> NationalRecord]

\* the state tier counted as an estimate
Resolve_StateAsEstimate(lookup, r) ==
    LET state == r.State
        county_fips == zfill(r.COUNTY, 5)
        cbsa_code == CbsaCode(r)
    IN IF Truthy(cbsa_code) /\ cbsa_code \in DOMAIN lookup
       THEN [tier |-> "cbsa", rpp_data |-> lookup[cbsa_code]]
       ELSE IF Prefix(county_fips, 2) \in DOMAIN lookup
       THEN [tier |-> "estimate", rpp_data |-> lookup[Prefix(county_fips, 2)]]
       ELSE IF state \in DOMAIN state_estimates
       THEN [tier |-> "estimate", rpp_data |-> state_estimates[state]]
       ELSE [tier |-> "estimate", rpp_data |-> NationalRecord]

\* the state estimates left out: national default after the two lookups
Resolve_NoEstimates(lookup, r) ==
    LET county_fips == zfill(r.COUNTY, 5)
        cbsa_code == CbsaCode(r)
    IN IF Truthy(cbsa_code) /\ cbsa_code \in DOMAIN lookup
       THEN [tier |-> "cbsa", rpp_data |-> lookup[cbsa_code]]
       ELSE IF Prefix(county_fips, 2) \in DOMAIN lookup
       THEN [tier |-> "state", rpp_data |-> lookup[Prefix(county_fips, 2)]]
       ELSE [tier |-> "estimate", rpp_data |-> NationalRecord]

\* the national default increments no counter
Resolve_NationalUncounted(lookup, r) ==
    LET state == r.State
        county_fips == zfill(r.COUNTY, 5)
        cbsa_code == CbsaCode(r)
    IN IF Truthy(cbsa_code) /\ cbsa_code \in DOMAIN lookup
       THEN [tier |-> "cbsa", rpp_data |-> lookup[cbsa_code]]
       ELSE IF Prefix(county_fips, 2) \in DOMAIN lookup
       THEN [tier |-> "state", rpp_data |-> lookup[Prefix(county_fips, 2)]]
       ELSE IF state \in DOMAIN state_estimates
       THEN [tier |-> "estimate", rpp_data |-> state_estimates[state]]
       ELSE [tier |-> "national", rpp_data |-> NationalRecord]

\* lines 245-262: the tier that supplies rpp_data for a row of zip_df
Resolve(lookup, r) ==
    LET state == r.State
        county_fips == zfill(r.COUNTY, 5)
        cbsa_code == CbsaCode(r)
    IN IF Truthy(cbsa_code) /\ cbsa_code \in DOMAIN lookup
       THEN [tier |-> "cbsa", rpp_data |-> lookup[cbsa_code]]
       ELSE IF Prefix(county_fips, 2) \in DOMAIN lookup
       THEN [tier |-> "state", rpp_data |-> lookup[Prefix(county_fips, 2)]]
       ELSE IF state \in DOMAIN state_estimates
       THEN [tier |-> "estimate", rpp_data |-> state_estimates[state]]
       ELSE [tier |-> "estimate", rpp_data |-> NationalRecord]

\* a missing component taken from the state estimate of the row
FinalRpp_FillFromEstimate(lookup, r) ==
    LET rpp_data == Resolve(lookup, r).rpp_data
        lower == IF r.State \in DOMAIN state_estimates THEN state_estimates[r.State]
                 ELSE NationalRecord
    IN [rpp_all     |-> Get(rpp_data, "rpp_all", lower.rpp_all),
        rpp_housing |-> Get(rpp_data, "rpp_housing", lower.rpp_housing),
        rpp_goods   |-> Get(rpp_data, "rpp_goods", lower.rpp_goods),
        rpp_other   |-> Get(rpp_data, "rpp_other", lower.rpp_other),
        state       |-> r.State,
        cbsa_code   |-> CbsaCode(r)]

\* lines 265-272
FinalRpp(lookup, r) ==
    LET rpp_data == Resolve(lookup, r).rpp_data IN
    [rpp_all     |-> Get(rpp_data, "rpp_all", NationalAverage),
     rpp_housing |-> Get(rpp_data, "rpp_housing", NationalAverage),
     rpp_goods   |-> Get(rpp_data, "rpp_goods", NationalAverage),
     rpp_other   |-> Get(rpp_data, "rpp_other", NationalAverage),
     state       |-> r.State,
     cbsa_code   |-> CbsaCode(r)]

----------------------------------------------------------------------------
(* Inputs *)

Z48505 == <<"4", "8", "5", "0", "5">>
Z78701 == <<"7", "8", "7", "0", "1">>
County26049 == <<"2", "6", "0", "4", "9">>      \* Genesee County, MI
County72001 == <<"7", "2", "0", "0", "1">>      \* Adjuntas, PR
StateMI == <<"M", "I">>
StatePR == <<"P", "R">>
Cbsa12420 == <<"1", "2", "4", "2", "0">>        \* Austin-Round Rock
Fips26 == <<"2", "6">>

Rec(geo, line, value) == [GeoFips |-> geo, LineCode |-> line, DataValue |-> value]

\* Michigan under its FIPS code
StateFrameFips == <<
    Rec(Fips26, "1", <<"9", "3", ".", "1">>),
    Rec(Fips26, "2", <<"9", "5", ".", "0">>),
    Rec(Fips26, "3", <<"8", "4", ".", "2">>),
    Rec(Fips26, "4", <<"9", "7", ".", "3">>) >>

\* Michigan under its postal code
StateFramePostal == <<
    Rec(StateMI, "1", <<"8", "9", ".", "5">>),
    Rec(StateMI, "2", <<"9", "3", ".", "0">>),
    Rec(StateMI, "3", <<"8", "5", ".", "0">>),
    Rec(StateMI, "4", <<"9", "2", ".", "0">>) >>

\* Michigan with rents not available
StateFramePartial == <<
    Rec(Fips26, "1", <<"9", "3", ".", "1">>),
    Rec(Fips26, "3", NA) >>

MsaFrameFull == <<
    Rec(Cbsa12420, "1", <<"9", "5", ".", "8">>),
    Rec(Cbsa12420, "2", <<"9", "6", ".", "4">>),
    Rec(Cbsa12420, "3", <<"1", "0", "1", ".", "3">>),
    Rec(Cbsa12420, "4", <<"9", "4", ".", "9">>) >>

\* a metro with goods not available and a line outside 1-4
MsaFramePartial == <<
    Rec(Cbsa12420, "1", <<"9", "5", ".", "8">>),
    Rec(Cbsa12420, "2", NA),
    Rec(Cbsa12420, "5", <<"9", "9", ".", "0">>) >>

\* a metro with no line of the four components: its entry of the lookup is
\* created at line 118 and stays empty
MsaFrameNoComponent == <<
    Rec(Cbsa12420, "5", <<"9", "9", ".", "0">>) >>

\* an empty frame is also what a failed fetch_bea_data returns
StateFrames == {<<>>, StateFrameFips, StateFramePostal, StateFramePartial}
MsaFrames == {<<>>, MsaFrameFull, MsaFramePartial, MsaFrameNoComponent}

CrosswalkRows ==
    {[ZIP |-> z, COUNTY |-> g[1], State |-> g[2], CBSA |-> c, RES_RATIO |-> r] :
        z \in {Z48505, Z78701},
        g \in {<<County26049, StateMI>>, <<County72001, StatePR>>},
        c \in {NaN, Cbsa12420},
        r \in {5, 10}}

RECURSIVE SeqsUpTo(_, _)
SeqsUpTo(S, n) ==
    IF n = 0 THEN {<<>>}
    ELSE LET shorter == SeqsUpTo(S, n - 1)
         IN shorter \cup {Append(q, x) : q \in {t \in shorter : Len(t) = n - 1}, x \in S}

Crosswalks == SeqsUpTo(CrosswalkRows, MaxRows)

HardCodedKey == "5181B2AA-C467-4435-8F9B-91A8002E40EC"

GenScript == "generate_full_dataset"
BldScript == "build_cost_of_living_dataset"

NoFiles == [f \in {} |-> 0]

\* a path at which no file exists, and a file by its lines (the lines of a
\* CSV file, the members of the object of a JSON file)
NoFile == [exists |-> FALSE, lines |-> <<>>]

FileOf(lines) == [exists |-> TRUE, lines |-> lines]

\* csv_to_json.py and optimize_dataset.py have not run
NoPipeline ==
    /\ message = <<>>
    /\ csv_file = NoFile
    /\ csv_df = <<>>
    /\ zip_data = <<>>
    /\ full_data = <<>>
    /\ max_size = 0
    /\ core_data = <<>>
    /\ state_shards = <<>>
    /\ n_written = 0

----------------------------------------------------------------------------
(* generate_comprehensive_dataset on data: from the fetched frames to the     *)
(* joined table                                                            *)

\* line 147
ProcessRpp ==
    /\ pc = "process"
    /\ rpp_lookup' = process_rpp_data(state_df, msa_df)
    /\ pc' = "download"
    /\ UNCHANGED <<pipeVars, rppVars, frameVars, joinVars, envVars, netVars, outVars>>

\* the archive fetched again although the cached one exists
UseCachedCrosswalk_Refetch ==
    /\ pc = "download"
    /\ cache_file
    /\ requests' = Append(requests, "HUD")
    /\ cache_bytes' = hud_csv
    /\ pc' = "read_csv"
    /\ UNCHANGED <<pipeVars, rpp_lookup, rppVars, frameVars, joinVars, envVars,
                   responses, cache_file, outVars>>

\* lines 66, 72-75: download_hud_crosswalk when the cached archive exists
UseCachedCrosswalk ==
    /\ pc = "download"
    /\ cache_file
    /\ pc' = "read_csv"
    /\ UNCHANGED <<pipeVars, rpp_lookup, rppVars, frameVars, joinVars, envVars, netVars, outVars>>

\* lines 154-167
ReadCrosswalk ==
    /\ pc = "read_csv"
    /\ zip_df' = cache_bytes
    /\ pc' = "dedup"
    /\ UNCHANGED <<pipeVars, rpp_lookup, rppVars, frameVars, i, final_data, matched_cbsa,
                   matched_state, estimated, envVars, netVars, outVars>>

\* lines 172-182
Dedup ==
    /\ pc = "dedup"
    /\ script = GenScript
    /\ zip_df' = Deduplicate(zip_df)
    /\ final_data' = EmptyDict
    /\ matched_cbsa' = 0
    /\ matched_state' = 0
    /\ estimated' = 0
    /\ i' = 0
    /\ pc' = "join"
    /\ UNCHANGED <<pipeVars, rpp_lookup, rppVars, frameVars, envVars, netVars, outVars>>


\* lines 239-274: one iteration of the join loop
JoinRow ==
    /\ pc = "join"
    /\ i < Len(zip_df)
    /\ LET r == zip_df[i + 1]
           zip_code == zfill(r.ZIP, 5)
           tier == Resolve(rpp_lookup, r).tier
       IN /\ final_data' = Put(final_data, zip_code, FinalRpp(rpp_lookup, r))
          /\ matched_cbsa' = IF tier = "cbsa" THEN matched_cbsa + 1 ELSE matched_cbsa
          /\ matched_state' = IF tier = "state" THEN matched_state + 1 ELSE matched_state
          /\ estimated' = IF tier = "estimate" THEN estimated + 1 ELSE estimated
    /\ i' = i + 1
    /\ UNCHANGED <<pipeVars, pc, rpp_lookup, rppVars, frameVars, zip_df, envVars, netVars, outVars>>

\* lines 276-279: the loop has ended, the summary is printed
EndJoin ==
    /\ pc = "join"
    /\ i = Len(zip_df)
    /\ pc' = "save"
    /\ UNCHANGED <<pipeVars, rpp_lookup, rppVars, frameVars, joinVars, envVars, netVars, outVars>>

NoRecord == Rec(<<>>, "", <<>>)

Init ==
    /\ pc = "process"
    /\ state_df \in StateFrames
    /\ msa_df \in MsaFrames
    /\ hud_csv \in Crosswalks
    /\ rpp_lookup = EmptyDict
    /\ row = NoRecord
    /\ n_rows = 0
    /\ zip_df = <<>>
    /\ i = 0
    /\ final_data = EmptyDict
    /\ matched_cbsa = 0
    /\ matched_state = 0
    /\ estimated = 0
    /\ script = GenScript
    /\ env_key = "unset"
    /\ BEA_API_KEY = HardCodedKey
    /\ requests = <<"SARPP", "MARPP">>
    /\ responses = [SARPP |-> IF state_df = <<>> THEN "empty" ELSE "data",
                    MARPP |-> IF msa_df = <<>> THEN "empty" ELSE "data"]
    /\ cache_file = TRUE
    /\ cache_bytes = hud_csv
    /\ files = NoFiles
    /\ exit_code = "running"
    /\ NoPipeline

Next ==
    \/ ProcessRpp
    \/ UseCachedCrosswalk
    \/ ReadCrosswalk
    \/ Dedup
    \/ JoinRow
    \/ EndJoin

Spec == Init /\ [][Next]_vars

----------------------------------------------------------------------------
(* process_rpp_data record by record (SpecRpp) *)

RawValues ==
    { <<"8", "9", ".", "5">>,                   \* 89.5
      <<"1", ",", "0", "2", "4", ".", "0">>,    \* 1,024.0
      NA,                                       \* (NA)
      <<"n", "/", "a">> }                       \* not a number

RawRecords ==
    {Rec(g, l, v) : g \in {Fips26, Cbsa12420}, l \in {"1", "2", "3", "4", "5", ""}, v \in RawValues}

\* lines 85-106: iterrows of state_df hands over the next record
RppStateRow ==
    /\ pc = "rpp_state"
    /\ n_rows < MaxRecs
    /\ \E rec \in RawRecords :
          LET done == ProcessRecord(rpp_lookup, rec, 2) IN
          /\ row' = rec
          /\ rpp_lookup' = done.lookup
          /\ pc' = IF done.raised = "none" THEN "rpp_state" ELSE "rpp_raised"
    /\ n_rows' = n_rows + 1
    /\ UNCHANGED <<pipeVars, frameVars, joinVars, envVars, netVars, outVars>>

\* lines 108-109: state_df is exhausted (or empty)
RppStateEnd ==
    /\ pc = "rpp_state"
    /\ pc' = "rpp_msa"
    /\ UNCHANGED <<pipeVars, rpp_lookup, rppVars, frameVars, joinVars, envVars, netVars, outVars>>

\* lines 110-130: iterrows of msa_df hands over the next record
RppMsaRow ==
    /\ pc = "rpp_msa"
    /\ n_rows < MaxRecs
    /\ \E rec \in RawRecords :
          LET done == ProcessRecord(rpp_lookup, rec, 5) IN
          /\ row' = rec
          /\ rpp_lookup' = done.lookup
          /\ pc' = IF done.raised = "none" THEN "rpp_msa" ELSE "rpp_raised"
    /\ n_rows' = n_rows + 1
    /\ UNCHANGED <<pipeVars, frameVars, joinVars, envVars, netVars, outVars>>

\* lines 132-133
RppReturn ==
    /\ pc = "rpp_msa"
    /\ pc' = "rpp_return"
    /\ UNCHANGED <<pipeVars, rpp_lookup, rppVars, frameVars, joinVars, envVars, netVars, outVars>>

InitRpp ==
    /\ pc = "rpp_state"
    /\ state_df = <<>>
    /\ msa_df = <<>>
    /\ hud_csv = <<>>
    /\ rpp_lookup = EmptyDict
    /\ row = NoRecord
    /\ n_rows = 0
    /\ zip_df = <<>>
    /\ i = 0
    /\ final_data = EmptyDict
    /\ matched_cbsa = 0
    /\ matched_state = 0
    /\ estimated = 0
    /\ script = GenScript
    /\ env_key = "unset"
    /\ BEA_API_KEY = HardCodedKey
    /\ requests = <<"SARPP", "MARPP">>
    /\ responses = [SARPP |-> "data", MARPP |-> "data"]
    /\ cache_file = TRUE
    /\ cache_bytes = hud_csv
    /\ files = NoFiles
    /\ exit_code = "running"
    /\ NoPipeline

NextRpp ==
    \/ RppStateRow
    \/ RppStateEnd
    \/ RppMsaRow
    \/ RppReturn

SpecRpp == InitRpp /\ [][NextRpp]_vars

----------------------------------------------------------------------------
(* The scripts as processes (SpecRun): generate_full_dataset.py and        *)
(* build_cost_of_living_dataset.py from start to exit                      *)

PublicJson == "public/col_by_zip.json"
SrcJson == "src/data/col_by_zip.json"
OutputCsv == "data/col_by_zip.csv"
Paths == {PublicJson, SrcJson, OutputCsv}

\* How a request to the statistical source ends: the HTTP call errors or
\* times out, the payload carries an Error object, the payload has no
\* BEAAPI/Results, Results has neither Error nor Data, or Data arrives.
FailureKinds == {"http_error", "error_object", "bad_shape", "no_data"}
ResponseKinds == FailureKinds \cup {"data"}

County48453 == <<"4", "8", "4", "5", "3">>      \* Travis County, TX
StateTX == <<"T", "X">>

Row78701 ==
    [ZIP |-> Z78701, COUNTY |-> County48453, State |-> StateTX, CBSA |-> Cbsa12420,
     RES_RATIO |-> 10]

Row48505 ==
    [ZIP |-> Z48505, COUNTY |-> County26049, State |-> StateMI, CBSA |-> NaN,
     RES_RATIO |-> 10]

RunCrosswalks == {<<Row48505>>, <<Row78701, Row48505>>}

\* a file that does not exist
Absent == [exists |-> FALSE, of |-> EmptyDict, n |-> 0, complete |-> FALSE]

\* json.dump(data, f) as far as it got: the first n entries of data, and
\* whether the dump ran to its end
Content(data, n, complete) == [exists |-> TRUE, of |-> data, n |-> n, complete |-> complete]

Size(d) == Cardinality(DOMAIN d)

\* what an earlier run left in an output file
OldData ==
    [z \in {Z78701} |->
        [rpp_all |-> 940, rpp_housing |-> 920, rpp_goods |-> 950, rpp_other |-> 955,
         state |-> StateTX, cbsa_code |-> None]]

OldContent == Content(OldData, 1, TRUE)

\* line 18 of generate_full_dataset.py: the credential is a literal
ImportGen ==
    /\ pc = "start"
    /\ script = GenScript
    /\ BEA_API_KEY' = HardCodedKey
    /\ pc' = "fetch_state"
    /\ UNCHANGED <<pipeVars, rpp_lookup, rppVars, frameVars, joinVars, script, env_key, hud_csv,
                   netVars, outVars>>

\* line 59 of build_cost_of_living_dataset.py:
\* os.environ.get("BEA_API_KEY") or "5181..."
ImportBld ==
    /\ pc = "start"
    /\ script = BldScript
    /\ BEA_API_KEY' = IF env_key \in {"unset", ""} THEN HardCodedKey ELSE env_key
    /\ pc' = "bea_msa"
    /\ UNCHANGED <<pipeVars, rpp_lookup, rppVars, frameVars, joinVars, script, env_key, hud_csv,
                   netVars, outVars>>

\* fetch_bea_data (lines 22-57), called at lines 143 and 144: the request is
\* sent; whatever goes wrong is caught and an empty frame is returned
FetchBea ==
    /\ pc \in {"fetch_state", "fetch_msa"}
    /\ LET table == IF pc = "fetch_state" THEN "SARPP" ELSE "MARPP" IN
       \E kind \in ResponseKinds :
          /\ requests' = Append(requests, table)
          /\ responses' = [responses EXCEPT ![table] = kind]
          /\ IF pc = "fetch_state"
             THEN /\ state_df' = IF kind = "data" THEN StateFrameFips ELSE <<>>
                  /\ UNCHANGED msa_df
             ELSE /\ msa_df' = IF kind = "data" THEN MsaFrameFull ELSE <<>>
                  /\ UNCHANGED state_df
    /\ pc' = IF pc = "fetch_state" THEN "fetch_msa" ELSE "process"
    /\ UNCHANGED <<pipeVars, rpp_lookup, rppVars, joinVars, envVars, cache_file, cache_bytes, outVars>>

\* bea_request (lines 65-102), called by load_rpp at lines 109 and 112:
\* without a credential it raises before the request; a failed request or
\* a payload without Data raises
BeaRequest ==
    /\ pc \in {"bea_msa", "bea_state"}
    /\ LET table == IF pc = "bea_msa" THEN "MARPP" ELSE "SARPP" IN
       IF BEA_API_KEY = ""
       THEN /\ pc' = "raised"
            /\ UNCHANGED <<pipeVars, requests, responses, state_df, msa_df>>
       ELSE \E kind \in ResponseKinds :
               /\ requests' = Append(requests, table)
               /\ responses' = [responses EXCEPT ![table] = kind]
               /\ IF kind # "data"
                  THEN /\ pc' = "raised"
                       /\ UNCHANGED <<pipeVars, state_df, msa_df>>
                  ELSE IF pc = "bea_msa"
                  THEN /\ msa_df' = MsaFrameFull
                       /\ pc' = "bea_state"
                       /\ UNCHANGED state_df
                  ELSE /\ state_df' = StateFrameFips
                       /\ pc' = "download"
                       /\ UNCHANGED msa_df
    /\ UNCHANGED <<pipeVars, rpp_lookup, rppVars, joinVars, envVars, cache_file, cache_bytes, outVars>>

\* requests.get(url, timeout=...) and raise_for_status() of
\* download_hud_crosswalk: the archive arrives, the server answers with an
\* error status, or the request times out
HudOutcomes == {"ok", "http_error", "timeout"}

\* download_hud_crosswalk without a cached archive (lines 66-71 of
\* generate_full_dataset.py, 137-142 of build_cost_of_living_dataset.py):
\* the archive is requested, and written to the cache when it arrives
DownloadCrosswalk ==
    /\ pc = "download"
    /\ ~cache_file
    /\ requests' = Append(requests, "HUD")
    /\ \E outcome \in HudOutcomes :
          IF outcome = "ok"
          THEN /\ cache_file' = TRUE
               /\ cache_bytes' = hud_csv
               /\ pc' = "read_csv"
          ELSE /\ pc' = "raised"
               /\ UNCHANGED <<cache_file, cache_bytes>>
    /\ UNCHANGED <<pipeVars, rpp_lookup, rppVars, frameVars, joinVars, envVars, responses, outVars>>

\* build_lookup, lines 168-173: the crosswalk is de-duplicated, then
\* rpp["geo"] is read; the frame load_rpp returns has the columns of the BEA
\* records and no column "geo", so the lookup raises KeyError
BldMerge ==
    /\ pc = "dedup"
    /\ script = BldScript
    /\ zip_df' = Deduplicate(zip_df)
    /\ pc' = "raised"
    /\ UNCHANGED <<pipeVars, rpp_lookup, rppVars, frameVars, i, final_data, matched_cbsa,
                   matched_state, estimated, envVars, netVars, outVars>>

\* lines 281-285: the output directory is made
MakeOutputDir ==
    /\ pc = "save"
    /\ pc' = "open_public"
    /\ UNCHANGED <<pipeVars, rpp_lookup, rppVars, frameVars, joinVars, envVars, netVars, outVars>>

WritingPath == IF pc \in {"open_public", "dump_public"} THEN PublicJson ELSE SrcJson

\* lines 286 and 293: open(path, 'w') truncates the file, or raises
OpenOutput ==
    /\ pc \in {"open_public", "open_src"}
    /\ \E opened \in BOOLEAN :
          IF opened
          THEN /\ files' = [files EXCEPT ![WritingPath] = Content(final_data, 0, FALSE)]
               /\ pc' = IF pc = "open_public" THEN "dump_public" ELSE "dump_src"
          ELSE /\ pc' = "raised"
               /\ UNCHANGED files
    /\ UNCHANGED <<pipeVars, rpp_lookup, rppVars, frameVars, joinVars, envVars, netVars, exit_code>>

\* lines 287 and 294: json.dump writes the next entry, or the write raises
\* and the with statement closes the file as it is
DumpEntry ==
    /\ pc \in {"dump_public", "dump_src"}
    /\ files[WritingPath].n < Size(final_data)
    /\ \E written \in BOOLEAN :
          IF written
          THEN /\ files' = [files EXCEPT ![WritingPath].n = @ + 1]
               /\ UNCHANGED pc
          ELSE /\ pc' = "raised"
               /\ UNCHANGED files
    /\ UNCHANGED <<pipeVars, rpp_lookup, rppVars, frameVars, joinVars, envVars, netVars, exit_code>>

\* the dump has written every entry; the with statement closes the file
CloseOutput ==
    /\ pc \in {"dump_public", "dump_src"}
    /\ files[WritingPath].n = Size(final_data)
    /\ files' = [files EXCEPT ![WritingPath].complete = TRUE]
    /\ pc' = IF pc = "dump_public" THEN "open_src" ELSE "report"
    /\ UNCHANGED <<pipeVars, rpp_lookup, rppVars, frameVars, joinVars, envVars, netVars, exit_code>>

\* lines 296-318: the function returns, the main block prints and ends
Finish ==
    /\ pc = "report"
    /\ exit_code' = 0
    /\ pc' = "exited"
    /\ UNCHANGED <<pipeVars, rpp_lookup, rppVars, frameVars, joinVars, envVars, netVars, files>>

\* the except clause of the main block (lines 320-322 of
\* generate_full_dataset.py, 224-227 of build_cost_of_living_dataset.py)
ExitOnError ==
    /\ pc = "raised"
    /\ exit_code' = 1
    /\ pc' = "exited"
    /\ UNCHANGED <<pipeVars, rpp_lookup, rppVars, frameVars, joinVars, envVars, netVars, files>>

InitRun ==
    /\ pc = "start"
    /\ script \in {GenScript, BldScript}
    /\ env_key \in {"unset", "", "MY-KEY"}
    /\ BEA_API_KEY = "undefined"
    /\ hud_csv \in RunCrosswalks
    /\ cache_file \in BOOLEAN
    /\ cache_bytes = IF cache_file THEN hud_csv ELSE <<>>
    /\ files \in [Paths -> {Absent, OldContent}]
    /\ requests = <<>>
    /\ responses = [SARPP |-> "none", MARPP |-> "none"]
    /\ state_df = <<>>
    /\ msa_df = <<>>
    /\ rpp_lookup = EmptyDict
    /\ row = NoRecord
    /\ n_rows = 0
    /\ zip_df = <<>>
    /\ i = 0
    /\ final_data = EmptyDict
    /\ matched_cbsa = 0
    /\ matched_state = 0
    /\ estimated = 0
    /\ exit_code = "running"
    /\ NoPipeline

NextRun ==
    \/ ImportGen
    \/ ImportBld
    \/ FetchBea
    \/ BeaRequest
    \/ ProcessRpp
    \/ UseCachedCrosswalk
    \/ DownloadCrosswalk
    \/ ReadCrosswalk
    \/ Dedup
    \/ BldMerge
    \/ JoinRow
    \/ EndJoin
    \/ MakeOutputDir
    \/ OpenOutput
    \/ DumpEntry
    \/ CloseOutput
    \/ Finish
    \/ ExitOnError

SpecRun == InitRun /\ [][NextRun]_vars

----------------------------------------------------------------------------
(* csv_to_json.py: pd.read_csv without dtypes, the conversion of the rows,  *)
(* json.dump and json.load.  Amounts read from the CSV are in thousandths, *)
(* amounts rounded to 2 decimals in hundredths.                            *)

RECURSIVE Pow10(_)
Pow10(n) == IF n = 0 THEN 1 ELSE 10 * Pow10(n - 1)

\* str(n) of a non-negative int
RECURSIVE IntText(_)
IntText(n) ==
    IF n < 10 THEN <<Digits[n + 1]>>
    ELSE IntText(n \div 10) \o <<Digits[(n % 10) + 1]>>

RECURSIVE StripTrailingZeros(_)
StripTrailingZeros(s) ==
    IF Len(s) > 1 /\ s[Len(s)] = "0" THEN StripTrailingZeros(SubSeq(s, 1, Len(s) - 1))
    ELSE s

\* repr of a non-negative float held as an integer number of 10^-places:
\* the whole part, ".", and the fraction without trailing zeros ("12420.0")
FloatText(v, places) ==
    IntText(v \div Pow10(places)) \o <<".">>
        \o StripTrailingZeros(zfill(IntText(v % Pow10(places)), places))

\* float(text) on decimal numerals with at most `places` fractional digits:
\* the value in units of 10^-places, or a ValueError
ParseScaled(s, places) ==
    LET dots == {k \in 1..Len(s) : s[k] = "."} IN
    IF dots = {}
    THEN IF s # <<>> /\ AllDigits(s)
         THEN [ok |-> TRUE, value |-> Pow10(places) * DigitsValue(s)]
         ELSE [ok |-> FALSE, value |-> 0]
    ELSE LET d == CHOOSE k \in dots : TRUE
             whole == SubSeq(s, 1, d - 1)
             frac == SubSeq(s, d + 1, Len(s))
         IN IF Cardinality(dots) = 1 /\ AllDigits(whole) /\ AllDigits(frac)
               /\ Len(frac) <= places /\ Len(whole) + Len(frac) > 0
            THEN [ok |-> TRUE,
                  value |-> Pow10(places) * DigitsValue(whole)
                            + Pow10(places - Len(frac)) * DigitsValue(frac)]
            ELSE [ok |-> FALSE, value |-> 0]

\* the columns csv_to_json reads
CsvColumns ==
    {"zip", "rpp_all", "rpp_housing", "rpp_goods", "rpp_other", "state", "cbsa_code"}

\* a line of data/col_by_zip.csv: the text of its cells
CsvLine(zip, state, cbsa_code, rpp_all, rpp_housing, rpp_goods, rpp_other) ==
    [zip |-> zip, state |-> state, cbsa_code |-> cbsa_code, rpp_all |-> rpp_all,
     rpp_housing |-> rpp_housing, rpp_goods |-> rpp_goods, rpp_other |-> rpp_other]

\* pd.read_csv infers the type of a column from all its cells: int64 when
\* every cell is an integer numeral, float64 when every cell is a numeral
\* or blank, object (str) otherwise
ColumnType(cells) ==
    IF \A c \in cells : c # <<>> /\ AllDigits(c) THEN "int64"
    ELSE IF \A c \in cells : c = <<>> \/ ParseScaled(c, 3).ok THEN "float64"
    ELSE "object"

\* a cell of the frame: a blank cell is NaN whatever the column
ReadCell(text, type) ==
    IF text = <<>> THEN [type |-> "nan", num |-> 0, text |-> NaN]
    ELSE IF type = "int64" THEN [type |-> "int", num |-> DigitsValue(text), text |-> <<>>]
    ELSE IF type = "float64"
    THEN [type |-> "float", num |-> ParseScaled(text, 3).value, text |-> <<>>]
    ELSE [type |-> "str", num |-> 0, text |-> text]

\* line 18: df = pd.read_csv(csv_path)
read_csv(lines) ==
    LET type(c) == ColumnType({lines[k][c] : k \in 1..Len(lines)}) IN
    [k \in 1..Len(lines) |-> [c \in CsvColumns |-> ReadCell(lines[k][c], type(c))]]

\* str(value) of a cell
PyStr(cell) ==
    CASE cell.type = "int" -> IntText(cell.num)
      [] cell.type = "float" -> FloatText(cell.num, 3)
      [] cell.type = "nan" -> <<"n", "a", "n">>
      [] cell.type = "str" -> cell.text

\* float(value) of a numeric cell, in thousandths
PyFloat(cell) == IF cell.type = "int" THEN 1000 * cell.num ELSE cell.num

\* pd.notna(value)
notna(cell) == cell.type # "nan"

\* round(x, 2), x in thousandths, the result in hundredths; a third decimal
\* of 5 is decided by the binary value of x, taken here as Python takes an
\* exact tie (to the even neighbour)
round2(x) ==
    LET down == x \div 10
        rest == x % 10
    IN IF rest < 5 THEN down
       ELSE IF rest > 5 THEN down + 1
       ELSE IF down % 2 = 0 THEN down ELSE down + 1

\* a dict in insertion order: a sequence of entries [key, value]
Keys(d) == [k \in 1..Len(d) |-> d[k].key]

KeySet(d) == {d[k].key : k \in 1..Len(d)}

Lookup(d, key) == d[CHOOSE k \in 1..Len(d) : d[k].key = key].value

\* d[key] = value: a present key keeps its place, a new key goes last
SetItem(d, key, value) ==
    IF key \in KeySet(d)
    THEN [k \in 1..Len(d) |-> IF d[k].key = key THEN [key |-> key, value |-> value] ELSE d[k]]
    ELSE Append(d, [key |-> key, value |-> value])

\* lines 26-33: the record of a row
ConvertRow(r) ==
    [rpp_all     |-> round2(PyFloat(r.rpp_all)),
     rpp_housing |-> round2(PyFloat(r.rpp_housing)),
     rpp_goods   |-> round2(PyFloat(r.rpp_goods)),
     rpp_other   |-> round2(PyFloat(r.rpp_other)),
     state       |-> PyStr(r.state),
     cbsa_code   |-> IF notna(r.cbsa_code) THEN PyStr(r.cbsa_code) ELSE None]

\* lines 22-33: the loop over the rows of df
RECURSIVE ConvertRows(_, _)
ConvertRows(data, rows) ==
    IF rows = <<>> THEN data
    ELSE ConvertRows(SetItem(data, zfill(PyStr(Head(rows).zip), 5), ConvertRow(Head(rows))),
                     Tail(rows))

\* JSON text of a value: a number by its repr, None as null, a str quoted
Quote == "\""
JsonNull == <<"n", "u", "l", "l">>

JsonNumber(x) == FloatText(x, 2)

JsonString(text) == <<Quote>> \o text \o <<Quote>>

JsonValue(field, v) ==
    IF field \in Fields THEN JsonNumber(v)
    ELSE IF v = None THEN JsonNull
    ELSE JsonString(v)

\* json.dump(data, f, separators=(',', ':')): the members in insertion
\* order, each record member by member
json_dump(data) ==
    [k \in 1..Len(data) |->
        [key |-> JsonString(data[k].key),
         value |-> [f \in DOMAIN data[k].value |-> JsonValue(f, data[k].value[f])]]]

\* a JSON value read back
JsonParse(text) ==
    IF text = JsonNull THEN None
    ELSE IF Head(text) = Quote THEN SubSeq(text, 2, Len(text) - 1)
    ELSE ParseScaled(text, 2).value

\* json.load(f)
json_load(lines) ==
    [k \in 1..Len(lines) |->
        [key |-> JsonParse(lines[k].key),
         value |-> [f \in DOMAIN lines[k].value |-> JsonParse(lines[k].value[f])]]]

----------------------------------------------------------------------------
(* optimize_dataset.py: create_core_dataset, create_state_shards *)

MetroZipCap == 1500
PerPrefixCap == 10
DefaultMaxSize == 2000

\* text.startswith(prefix)
StartsWith(text, prefix) ==
    Len(text) >= Len(prefix) /\ SubSeq(text, 1, Len(prefix)) = prefix

\* seq[:n]
Take(seq, n) == SubSeq(seq, 1, IF Len(seq) < n THEN Len(seq) ELSE n)

MetroMark == <<"M", "E", "T", "R", "O", "_">>

\* lines 39-44
major_city_prefixes ==
    << <<"1", "0", "0">>, <<"2", "0", "0">>, <<"3", "0", "0">>, <<"4", "0", "0">>,
       <<"5", "0", "0">>, <<"6", "0", "0">>, <<"7", "0", "0">>, <<"8", "0", "0">>,
       <<"9", "0", "0">>,
       <<"8", "5", "0">>, <<"9", "4", "6">>, <<"9", "0", "2">>, <<"6", "0", "6">>,
       <<"7", "7", "5">>, <<"3", "3", "2">>, <<"8", "0", "2">>, <<"9", "7", "2">>,
       <<"7", "8", "5">>,
       <<"3", "2", "1">>, <<"4", "8", "0">>, <<"1", "9", "1">>, <<"8", "0", "4">>,
       <<"2", "8", "0">>, <<"5", "3", "5">>, <<"3", "3", "6">>, <<"8", "7", "0">>,
       <<"4", "6", "5">> >>

\* lines 31-32: data.get('cbsa_code') is truthy and starts with 'METRO_'
IsMetro(entry) ==
    LET cbsa_code == Get(entry.value, "cbsa_code", None) IN
    Truthy(cbsa_code) /\ StartsWith(cbsa_code, MetroMark)

\* lines 29-33
metro_zips(full) == Keys(SelectSeq(full, IsMetro))

\* lines 46-49: the first ZIPs of each prefix, prefix after prefix
RECURSIVE PrefixZips(_, _)
PrefixZips(full, prefixes) ==
    IF prefixes = <<>> THEN <<>>
    ELSE LET matches(entry) == StartsWith(entry.key, Head(prefixes)) IN
         Take(Keys(SelectSeq(full, matches)), PerPrefixCap)
             \o PrefixZips(full, Tail(prefixes))

\* every metro ZIP put on the priority list
priority_zips_AllMetro(full) ==
    metro_zips(full) \o PrefixZips(full, major_city_prefixes)

\* lines 26-49
priority_zips(full) ==
    Take(metro_zips(full), MetroZipCap) \o PrefixZips(full, major_city_prefixes)

\* the body of the loop without the size test
KeepUnseen_NoCap(acc, zip_code, cap) ==
    IF zip_code \notin acc.seen
    THEN [seen |-> acc.seen \cup {zip_code}, core_zips |-> Append(acc.core_zips, zip_code)]
    ELSE acc

\* lines 55-57: the body of the loop over priority_zips
KeepUnseen(acc, zip_code, cap) ==
    IF zip_code \notin acc.seen /\ Len(acc.core_zips) < cap
    THEN [seen |-> acc.seen \cup {zip_code}, core_zips |-> Append(acc.core_zips, zip_code)]
    ELSE acc

\* lines 54-57: the loop over list[lo..hi], from left to right.  The range
\* is halved so that a long list is handled in few nested steps; the test on
\* the left half's result has it computed before the right half is entered.
RECURSIVE KeepRange(_, _, _, _, _)
KeepRange(acc, list, lo, hi, cap) ==
    IF lo > hi THEN acc
    ELSE IF lo = hi THEN KeepUnseen(acc, list[lo], cap)
    ELSE LET mid == (lo + hi) \div 2
             left == KeepRange(acc, list, lo, mid, cap)
         IN IF Len(left.core_zips) >= 0
            THEN KeepRange(left, list, mid + 1, hi, cap)
            ELSE left

\* lines 52-57
core_zips(full, cap) ==
    LET list == priority_zips(full) IN
    KeepRange([seen |-> {}, core_zips |-> <<>>], list, 1, Len(list), cap).core_zips

\* lines 21-62
create_core_dataset(full, cap) ==
    LET zips == core_zips(full, cap) IN
    [k \in 1..Len(zips) |-> [key |-> zips[k], value |-> Lookup(full, zips[k])]]

StateXX == <<"X", "X">>

\* line 71
StateOf(entry) == Get(entry.value, "state", StateXX)

\* every ZIP put in the shard XX
AddToShard_AllXX(shards, entry) ==
    LET shard == IF StateXX \in KeySet(shards) THEN Lookup(shards, StateXX) ELSE <<>> IN
    SetItem(shards, StateXX, SetItem(shard, entry.key, entry.value))

\* a record without a state field left out of the shards
AddToShard_SkipNoState(shards, entry) ==
    IF "state" \notin DOMAIN entry.value THEN shards
    ELSE LET state == entry.value.state
             shard == IF state \in KeySet(shards) THEN Lookup(shards, state) ELSE <<>>
         IN SetItem(shards, state, SetItem(shard, entry.key, entry.value))

\* the record stored in the shard without its state field
AddToShard_StateStripped(shards, entry) ==
    LET state == StateOf(entry)
        shard == IF state \in KeySet(shards) THEN Lookup(shards, state) ELSE <<>>
        stripped == [f \in DOMAIN entry.value \ {"state"} |-> entry.value[f]]
    IN SetItem(shards, state, SetItem(shard, entry.key, stripped))

\* lines 71-74: the body of the loop over full_data
AddToShard(shards, entry) ==
    LET state == StateOf(entry)
        shard == IF state \in KeySet(shards) THEN Lookup(shards, state) ELSE <<>>
    IN SetItem(shards, state, SetItem(shard, entry.key, entry.value))

\* lines 70-74: the loop over the members lo..hi of full_data, in order.
\* The range is halved so that a long dataset is handled in few nested
\* steps; the test on the left half's result has it computed before the
\* right half is entered.
RECURSIVE ShardRange(_, _, _, _)
ShardRange(shards, full, lo, hi) ==
    IF lo > hi THEN shards
    ELSE IF lo = hi THEN AddToShard(shards, full[lo])
    ELSE LET mid == (lo + hi) \div 2
             left == ShardRange(shards, full, lo, mid)
         IN IF Len(left) >= 0
            THEN ShardRange(left, full, mid + 1, hi)
            ELSE left

\* lines 64-80
create_state_shards(full) == ShardRange(<<>>, full, 1, Len(full))

----------------------------------------------------------------------------
(* optimize_dataset.py: create_fallback_lookup *)

\* lines 85-107: ZIP prefix of one or two digits, then the state
ZipToStateRows == <<
    <<<<"0">>, <<"M", "A">>>>, <<<<"1">>, <<"M", "A">>>>,
    <<<<"2">>, <<"M", "A">>>>, <<<<"3">>, <<"N", "H">>>>,
    <<<<"4">>, <<"M", "E">>>>, <<<<"5">>, <<"V", "T">>>>,
    <<<<"6">>, <<"C", "T">>>>, <<<<"7">>, <<"N", "J">>>>,
    <<<<"8">>, <<"N", "J">>>>, <<<<"9">>, <<"N", "J">>>>,
    <<<<"1", "0">>, <<"N", "Y">>>>, <<<<"1", "1">>, <<"N", "Y">>>>,
    <<<<"1", "2">>, <<"N", "Y">>>>, <<<<"1", "3">>, <<"N", "Y">>>>,
    <<<<"1", "4">>, <<"N", "Y">>>>, <<<<"1", "5">>, <<"P", "A">>>>,
    <<<<"1", "6">>, <<"P", "A">>>>, <<<<"1", "7">>, <<"P", "A">>>>,
    <<<<"1", "8">>, <<"P", "A">>>>, <<<<"1", "9">>, <<"P", "A">>>>,
    <<<<"2", "0">>, <<"D", "C">>>>, <<<<"2", "1">>, <<"M", "D">>>>,
    <<<<"2", "2">>, <<"V", "A">>>>, <<<<"2", "3">>, <<"V", "A">>>>,
    <<<<"2", "4">>, <<"V", "A">>>>, <<<<"2", "5">>, <<"M", "A">>>>,
    <<<<"2", "6">>, <<"M", "A">>>>, <<<<"2", "7">>, <<"M", "A">>>>,
    <<<<"2", "8">>, <<"N", "C">>>>, <<<<"2", "9">>, <<"S", "C">>>>,
    <<<<"3", "0">>, <<"G", "A">>>>, <<<<"3", "1">>, <<"G", "A">>>>,
    <<<<"3", "2">>, <<"F", "L">>>>, <<<<"3", "3">>, <<"F", "L">>>>,
    <<<<"3", "4">>, <<"F", "L">>>>, <<<<"3", "5">>, <<"A", "L">>>>,
    <<<<"3", "6">>, <<"A", "L">>>>, <<<<"3", "7">>, <<"T", "N">>>>,
    <<<<"3", "8">>, <<"T", "N">>>>, <<<<"3", "9">>, <<"O", "H">>>>,
    <<<<"4", "0">>, <<"K", "Y">>>>, <<<<"4", "1">>, <<"K", "Y">>>>,
    <<<<"4", "2">>, <<"P", "A">>>>, <<<<"4", "3">>, <<"O", "H">>>>,
    <<<<"4", "4">>, <<"O", "H">>>>, <<<<"4", "5">>, <<"O", "H">>>>,
    <<<<"4", "6">>, <<"I", "N">>>>, <<<<"4", "7">>, <<"I", "N">>>>,
    <<<<"4", "8">>, <<"M", "I">>>>, <<<<"4", "9">>, <<"M", "I">>>>,
    <<<<"5", "0">>, <<"I", "A">>>>, <<<<"5", "1">>, <<"I", "A">>>>,
    <<<<"5", "2">>, <<"I", "A">>>>, <<<<"5", "3">>, <<"W", "I">>>>,
    <<<<"5", "4">>, <<"W", "I">>>>, <<<<"5", "5">>, <<"M", "N">>>>,
    <<<<"5", "6">>, <<"M", "N">>>>, <<<<"5", "7">>, <<"M", "N">>>>,
    <<<<"5", "8">>, <<"M", "N">>>>, <<<<"5", "9">>, <<"M", "N">>>>,
    <<<<"6", "0">>, <<"I", "L">>>>, <<<<"6", "1">>, <<"I", "L">>>>,
    <<<<"6", "2">>, <<"I", "L">>>>, <<<<"6", "3">>, <<"M", "O">>>>,
    <<<<"6", "4">>, <<"M", "O">>>>, <<<<"6", "5">>, <<"M", "O">>>>,
    <<<<"6", "6">>, <<"K", "S">>>>, <<<<"6", "7">>, <<"K", "S">>>>,
    <<<<"6", "8">>, <<"N", "E">>>>, <<<<"6", "9">>, <<"N", "E">>>>,
    <<<<"7", "0">>, <<"L", "A">>>>, <<<<"7", "1">>, <<"L", "A">>>>,
    <<<<"7", "2">>, <<"A", "R">>>>, <<<<"7", "3">>, <<"O", "K">>>>,
    <<<<"7", "4">>, <<"O", "K">>>>, <<<<"7", "5">>, <<"T", "X">>>>,
    <<<<"7", "6">>, <<"T", "X">>>>, <<<<"7", "7">>, <<"T", "X">>>>,
    <<<<"7", "8">>, <<"T", "X">>>>, <<<<"7", "9">>, <<"T", "X">>>>,
    <<<<"8", "0">>, <<"C", "O">>>>, <<<<"8", "1">>, <<"C", "O">>>>,
    <<<<"8", "2">>, <<"W", "Y">>>>, <<<<"8", "3">>, <<"I", "D">>>>,
    <<<<"8", "4">>, <<"U", "T">>>>, <<<<"8", "5">>, <<"A", "Z">>>>,
    <<<<"8", "6">>, <<"A", "Z">>>>, <<<<"8", "7">>, <<"N", "M">>>>,
    <<<<"8", "8">>, <<"N", "V">>>>, <<<<"8", "9">>, <<"N", "V">>>>,
    <<<<"9", "0">>, <<"C", "A">>>>, <<<<"9", "1">>, <<"C", "A">>>>,
    <<<<"9", "2">>, <<"C", "A">>>>, <<<<"9", "3">>, <<"C", "A">>>>,
    <<<<"9", "4">>, <<"C", "A">>>>, <<<<"9", "5">>, <<"C", "A">>>>,
    <<<<"9", "6">>, <<"C", "A">>>>, <<<<"9", "7">>, <<"O", "R">>>>,
    <<<<"9", "8">>, <<"W", "A">>>>, <<<<"9", "9">>, <<"A", "K">>>> >>

\* lines 110-120: state, then its estimate
StateRppRows == <<
    <<<<"A", "L">>, 865>>, <<<<"A", "K">>, 1250>>, <<<<"A", "Z">>, 970>>,
    <<<<"A", "R">>, 850>>, <<<<"C", "A">>, 1420>>, <<<<"C", "O">>, 1050>>,
    <<<<"C", "T">>, 1150>>, <<<<"D", "E">>, 1020>>, <<<<"F", "L">>, 960>>,
    <<<<"G", "A">>, 955>>, <<<<"H", "I">>, 1500>>, <<<<"I", "D">>, 940>>,
    <<<<"I", "L">>, 1080>>, <<<<"I", "N">>, 885>>, <<<<"I", "A">>, 900>>,
    <<<<"K", "S">>, 890>>, <<<<"K", "Y">>, 880>>, <<<<"L", "A">>, 935>>,
    <<<<"M", "E">>, 1055>>, <<<<"M", "D">>, 1120>>, <<<<"M", "A">>, 1175>>,
    <<<<"M", "I">>, 895>>, <<<<"M", "N">>, 1020>>, <<<<"M", "S">>, 840>>,
    <<<<"M", "O">>, 905>>, <<<<"M", "T">>, 950>>, <<<<"N", "E">>, 910>>,
    <<<<"N", "V">>, 980>>, <<<<"N", "H">>, 1030>>, <<<<"N", "J">>, 1200>>,
    <<<<"N", "M">>, 925>>, <<<<"N", "Y">>, 1250>>, <<<<"N", "C">>, 945>>,
    <<<<"N", "D">>, 960>>, <<<<"O", "H">>, 915>>, <<<<"O", "K">>, 870>>,
    <<<<"O", "R">>, 1100>>, <<<<"P", "A">>, 1085>>, <<<<"R", "I">>, 1100>>,
    <<<<"S", "C">>, 950>>, <<<<"S", "D">>, 930>>, <<<<"T", "N">>, 875>>,
    <<<<"T", "X">>, 940>>, <<<<"U", "T">>, 985>>, <<<<"V", "T">>, 1060>>,
    <<<<"V", "A">>, 990>>, <<<<"W", "A">>, 1180>>, <<<<"W", "V">>, 860>>,
    <<<<"W", "I">>, 965>>, <<<<"W", "Y">>, 920>>, <<<<"D", "C">>, 1300>> >>

\* only the two-digit prefixes: a ZIP that starts with 0 finds no state
zip_to_state_TwoDigitOnly ==
    LET TwoDigits(entry) == Len(entry.key) = 2 IN
    SelectSeq([k \in 1..Len(ZipToStateRows) |->
                  [key |-> ZipToStateRows[k][1], value |-> ZipToStateRows[k][2]]],
              TwoDigits)

\* lines 85-107
zip_to_state ==
    [k \in 1..Len(ZipToStateRows) |->
        [key |-> ZipToStateRows[k][1], value |-> ZipToStateRows[k][2]]]

\* the estimates cut to whole index points
state_rpp_WholePoints ==
    [k \in 1..Len(StateRppRows) |->
        [key |-> StateRppRows[k][1], value |-> 10 * (StateRppRows[k][2] \div 10)]]

\* lines 110-120: the amounts in tenths
state_rpp ==
    [k \in 1..Len(StateRppRows) |->
        [key |-> StateRppRows[k][1], value |-> StateRppRows[k][2]]]

\* lines 122-125
create_fallback_lookup ==
    <<[key |-> <<"zip_to_state">>, value |-> zip_to_state],
      [key |-> <<"state_rpp">>, value |-> state_rpp]>>

\* json.dump(fallback_data, f, separators=(',', ':')): two members, each
\* an object whose members are written in insertion order
FallbackLines ==
    LET fallback_data == create_fallback_lookup
        states == fallback_data[1].value
        amounts == fallback_data[2].value
    IN <<[key |-> JsonString(fallback_data[1].key),
          value |-> [k \in 1..Len(states) |->
                        [key |-> JsonString(states[k].key),
                         value |-> JsonString(states[k].value)]]],
         [key |-> JsonString(fallback_data[2].key),
          value |-> [k \in 1..Len(amounts) |->
                        [key |-> JsonString(amounts[k].key),
                         value |-> FloatText(amounts[k].value, 1)]]]>>

\* the fallback file read back: the states as text, the amounts in tenths
FallbackLoad(lines) ==
    [zip_to_state |->
        [k \in 1..Len(lines[1].value) |->
            [key |-> JsonParse(lines[1].value[k].key),
             value |-> JsonParse(lines[1].value[k].value)]],
     state_rpp |->
        [k \in 1..Len(lines[2].value) |->
            [key |-> JsonParse(lines[2].value[k].key),
             value |-> ParseScaled(lines[2].value[k].value, 1).value]]]

----------------------------------------------------------------------------
(* create_core_dataset and create_state_shards on data (SpecOpt) *)

MaxZips == 3

Z10001 == <<"1", "0", "0", "0", "1">>
Z10002 == <<"1", "0", "0", "0", "2">>
Z94102 == <<"9", "4", "1", "0", "2">>
Z60601 == <<"6", "0", "6", "0", "1">>
StateNY == <<"N", "Y">>
StateCA == <<"C", "A">>
StateIL == <<"I", "L">>

\* 'METRO_' + zip_code[:3], the code build_enhanced_dataset.py gives
MetroCode(zip) == MetroMark \o Prefix(zip, 3)

\* a member of the dataset: ZIP, and a record with amounts in hundredths
Entry(zip, state, cbsa_code) ==
    [key |-> zip,
     value |-> [rpp_all |-> 10850, rpp_housing |-> 11800, rpp_goods |-> 10200,
                rpp_other |-> 10700, state |-> state, cbsa_code |-> cbsa_code]]

\* a member whose record has no state
EntryNoState(zip, cbsa_code) ==
    [key |-> zip,
     value |-> [rpp_all |-> 9400, rpp_housing |-> 9200, rpp_goods |-> 9500,
                rpp_other |-> 9550, cbsa_code |-> cbsa_code]]

Entries ==
    { Entry(Z10001, StateNY, MetroCode(Z10001)),    \* metro, and prefix 100
      Entry(Z10002, StateNY, None),                 \* prefix 100 only
      Entry(Z94102, StateCA, MetroCode(Z94102)),    \* metro only
      Entry(Z60601, StateIL, MetroCode(Z60601)),    \* metro, and prefix 606
      Entry(Z48505, StateMI, None),                 \* neither
      EntryNoState(Z78701, Cbsa12420) }             \* neither, no state

\* the datasets of up to n members with distinct ZIPs, in every order
RECURSIVE DatasetsUpTo(_)
DatasetsUpTo(n) ==
    IF n = 0 THEN {<<>>}
    ELSE LET shorter == DatasetsUpTo(n - 1) IN
         shorter \cup {Append(d, e) : d \in shorter, e \in Entries}

DistinctKeys(d) == Cardinality(KeySet(d)) = Len(d)

SmallDatasets == {d \in DatasetsUpTo(MaxZips) : DistinctKeys(d)}

\* ZIPs 00001, 00002, ... of metro areas, then the members of tail
ManyMetros(n, tail) ==
    [k \in 1..n |-> Entry(zfill(IntText(k), 5), StateNY, MetroCode(zfill(IntText(k), 5)))]
        \o tail

\* ZIPs 10001, 10002, ... outside metro areas
ManyOfPrefix(n) == [k \in 1..n |-> Entry(IntText(10000 + k), StateNY, None)]

\* datasets with more metro ZIPs than line 36 takes, and more ZIPs of a
\* prefix than line 49 takes
LargeDatasets ==
    { ManyMetros(MetroZipCap + 1, <<Entry(Z10002, StateNY, None)>>),
      ManyOfPrefix(PerPrefixCap + 1) }

Datasets == SmallDatasets \cup LargeDatasets

Caps == {0, 1, 2, DefaultMaxSize}

\* the scripts of generate_full_dataset.py and the others have not run
NoBuild ==
    /\ state_df = <<>>
    /\ msa_df = <<>>
    /\ hud_csv = <<>>
    /\ rpp_lookup = EmptyDict
    /\ row = NoRecord
    /\ n_rows = 0
    /\ zip_df = <<>>
    /\ i = 0
    /\ final_data = EmptyDict
    /\ matched_cbsa = 0
    /\ matched_state = 0
    /\ estimated = 0
    /\ env_key = "unset"
    /\ BEA_API_KEY = HardCodedKey
    /\ requests = <<>>
    /\ responses = [SARPP |-> "none", MARPP |-> "none"]
    /\ cache_file = FALSE
    /\ cache_bytes = <<>>
    /\ exit_code = "running"

CsvScript == "csv_to_json"
OptScript == "optimize_dataset"

\* line 140: core_data = create_core_dataset(full_data, max_size)
CreateCore ==
    /\ pc = "opt_core"
    /\ core_data' = create_core_dataset(full_data, max_size)
    /\ pc' = "opt_shards"
    /\ UNCHANGED <<rpp_lookup, rppVars, frameVars, joinVars, envVars, netVars, outVars,
                   message, csv_file, csv_df, zip_data, full_data, max_size, state_shards,
                   n_written>>

\* line 144: state_shards = create_state_shards(full_data)
CreateShards ==
    /\ pc = "opt_shards"
    /\ state_shards' = create_state_shards(full_data)
    /\ pc' = "write"
    /\ UNCHANGED <<rpp_lookup, rppVars, frameVars, joinVars, envVars, netVars, outVars,
                   message, csv_file, csv_df, zip_data, full_data, max_size, core_data,
                   n_written>>

\* create_core_dataset called once more with the same dataset and cap
CreateCoreAgain ==
    /\ pc = "write"
    /\ core_data' = create_core_dataset(full_data, max_size)
    /\ pc' = "opt_again"
    /\ UNCHANGED <<rpp_lookup, rppVars, frameVars, joinVars, envVars, netVars, outVars,
                   message, csv_file, csv_df, zip_data, full_data, max_size, state_shards,
                   n_written>>

InitOpt ==
    /\ pc = "opt_core"
    /\ script = OptScript
    /\ full_data \in Datasets
    /\ max_size \in Caps
    /\ core_data = <<>>
    /\ state_shards = <<>>
    /\ message = <<>>
    /\ csv_file = NoFile
    /\ csv_df = <<>>
    /\ zip_data = <<>>
    /\ n_written = 0
    /\ files = NoFiles
    /\ NoBuild

NextOpt ==
    \/ CreateCore
    \/ CreateShards
    \/ CreateCoreAgain

SpecOpt == InitOpt /\ [][NextOpt]_vars

----------------------------------------------------------------------------
(* The download cache across runs (SpecCache): download_hud_crosswalk      *)
(* called by one run after another, the cache directory being kept         *)

MaxRequests == 3

\* archives HUD serves over time
HudArchives == RunCrosswalks \cup {<<Row78701>>}

\* The process has ended, at the return of download_hud_crosswalk or on its
\* exception; the script is run again and calls download_hud_crosswalk
\* (line 151 of generate_full_dataset.py, 157 of
\* build_cost_of_living_dataset.py).  HUD may serve another archive by then.
LaterRun ==
    /\ pc \in {"read_csv", "raised"}
    /\ Len(requests) < MaxRequests
    /\ pc' = "download"
    /\ hud_csv' \in HudArchives
    /\ UNCHANGED <<pipeVars, rpp_lookup, rppVars, frameVars, joinVars, script, env_key,
                   BEA_API_KEY, netVars, outVars>>

InitCache ==
    /\ pc = "download"
    /\ script \in {GenScript, BldScript}
    /\ env_key = "unset"
    /\ BEA_API_KEY = HardCodedKey
    /\ hud_csv \in HudArchives
    /\ cache_file \in BOOLEAN
    /\ cache_bytes \in IF cache_file THEN HudArchives ELSE {<<>>}
    /\ files = NoFiles
    /\ requests = <<>>
    /\ responses = [SARPP |-> "data", MARPP |-> "data"]
    /\ state_df = <<>>
    /\ msa_df = <<>>
    /\ rpp_lookup = EmptyDict
    /\ row = NoRecord
    /\ n_rows = 0
    /\ zip_df = <<>>
    /\ i = 0
    /\ final_data = EmptyDict
    /\ matched_cbsa = 0
    /\ matched_state = 0
    /\ estimated = 0
    /\ exit_code = "running"
    /\ NoPipeline

NextCache ==
    \/ UseCachedCrosswalk
    \/ DownloadCrosswalk
    \/ LaterRun

SpecCache == InitCache /\ [][NextCache]_vars

----------------------------------------------------------------------------
(* csv_to_json.py and optimize_dataset.py as processes (SpecPipe): the     *)
(* input file, the conversion, the output files, the exit status           *)

MaxCsvRows == 2    \* lines of data/col_by_zip.csv
MaxPipeZips == 2   \* members of src/data/col_by_zip.json read by optimize_dataset.py

CorePublic == "public/col_by_zip_core.json"
CoreSrc == "src/data/col_by_zip_core.json"
FallbackPublic == "public/col_by_zip_fallback.json"
FallbackSrc == "src/data/col_by_zip_fallback.json"
PublicStates == "public/states"
SrcStates == "src/data/states"

\* a text as a string
RECURSIVE Join(_)
Join(text) == IF text = <<>> THEN "" ELSE Head(text) \o Join(Tail(text))

\* lines 169 and 173: shards_dir / f"{state}.json"
ShardPath(dir, state) == dir \o "/" \o Join(state) \o ".json"

PipeStates == {StateNY, StateCA, StateIL, StateMI, StateXX}

PipePaths ==
    {PublicJson, SrcJson, CorePublic, CoreSrc, FallbackPublic, FallbackSrc}
        \cup {ShardPath(dir, state) : dir \in {PublicStates, SrcStates}, state \in PipeStates}

Z02101 == <<"0", "2", "1", "0", "1">>
StateMA == <<"M", "A">>
Cbsa14460 == <<"1", "4", "4", "6", "0">>

\* lines of the CSV: a ZIP outside any metro area (blank cbsa_code), a ZIP
\* of a metro area, and a ZIP with a leading zero and amounts of 3 decimals
CsvLines ==
    { CsvLine(Z48505, StateMI, <<>>,
              <<"8", "9", ".", "5">>, <<"7", "8", ".", "2">>, <<"9", "4", ".", "1">>,
              <<"9", "2">>),
      CsvLine(Z78701, StateTX, Cbsa12420,
              <<"9", "5", ".", "8">>, <<"9", "8", ".", "4">>, <<"9", "6", ".", "2", "5", "1">>,
              <<"9", "4">>),
      CsvLine(Z02101, StateMA, Cbsa14460,
              <<"1", "1", "7", ".", "4", "5", "6">>, <<"1", "4", "1", ".", "0", "0", "4">>,
              <<"1", "0", "3">>, <<"1", "0", "8", ".", "7">>) }

\* the tables of up to MaxCsvRows lines with distinct ZIPs, the empty one
\* (a header and no line) included
CsvTables ==
    {t \in SeqsUpTo(CsvLines, MaxCsvRows) :
        \A a, b \in 1..Len(t) : a # b => t[a].zip # t[b].zip}

\* what src/data/col_by_zip.json holds when optimize_dataset.py starts
PipeDatasets == {d \in DatasetsUpTo(MaxPipeZips) : DistinctKeys(d)}

\* what an earlier run left at an output path
OldFile == FileOf(json_dump(<<Entry(Z78701, StateTX, None)>>))

\* lines 168-175 of optimize_dataset.py: each shard to the public directory
\* and to the source directory
ShardOutputs ==
    [k \in 1..(2 * Len(state_shards)) |->
        LET shard == state_shards[(k + 1) \div 2] IN
        [path |-> ShardPath(IF k % 2 = 1 THEN PublicStates ELSE SrcStates, shard.key),
         lines |-> json_dump(shard.value)]]

\* the files the running script writes, in order: lines 44-48 of
\* csv_to_json.py, lines 154-184 of optimize_dataset.py
Outputs ==
    IF script = CsvScript
    THEN <<[path |-> PublicJson, lines |-> json_dump(zip_data)],
           [path |-> SrcJson, lines |-> json_dump(zip_data)]>>
    ELSE <<[path |-> CorePublic, lines |-> json_dump(core_data)],
           [path |-> CoreSrc, lines |-> json_dump(core_data)]>>
         \o ShardOutputs
         \o <<[path |-> FallbackPublic, lines |-> FallbackLines],
              [path |-> FallbackSrc, lines |-> FallbackLines]>>

FileNotFound == "[Errno 2] No such file or directory: "
CsvNotFound == "CSV file not found: "
WriteError == "[Errno 28] No space left on device"

\* lines 14-16 of csv_to_json.py: the input must exist
CsvCheck ==
    /\ pc = "start"
    /\ script = CsvScript
    /\ IF csv_file.exists
       THEN /\ pc' = "csv_read"
            /\ UNCHANGED message
       ELSE /\ message' = <<CsvNotFound, OutputCsv>>
            /\ pc' = "raised"
    /\ UNCHANGED <<rpp_lookup, rppVars, frameVars, joinVars, envVars, netVars, outVars,
                   csv_file, csv_df, zip_data, full_data, max_size, core_data,
                   state_shards, n_written>>

\* line 18 of csv_to_json.py
CsvRead ==
    /\ pc = "csv_read"
    /\ csv_df' = read_csv(csv_file.lines)
    /\ pc' = "csv_convert"
    /\ UNCHANGED <<rpp_lookup, rppVars, frameVars, joinVars, envVars, netVars, outVars,
                   message, csv_file, zip_data, full_data, max_size, core_data,
                   state_shards, n_written>>

\* lines 22-41 of csv_to_json.py: the dictionary is built, the output
\* directories are made
CsvConvert ==
    /\ pc = "csv_convert"
    /\ zip_data' = ConvertRows(<<>>, csv_df)
    /\ pc' = "write"
    /\ UNCHANGED <<rpp_lookup, rppVars, frameVars, joinVars, envVars, netVars, outVars,
                   message, csv_file, csv_df, full_data, max_size, core_data,
                   state_shards, n_written>>

\* the input read as an empty dataset when the file is missing
OptLoad_MissingAsEmpty ==
    /\ pc = "start"
    /\ script = OptScript
    /\ full_data' = json_load(files[SrcJson].lines)
    /\ pc' = "opt_core"
    /\ UNCHANGED <<rpp_lookup, rppVars, frameVars, joinVars, envVars, netVars, outVars,
                   message, csv_file, csv_df, zip_data, max_size, core_data,
                   state_shards, n_written>>

\* lines 16-19 and 135 of optimize_dataset.py: open() raises
\* FileNotFoundError when the dataset is missing
OptLoad ==
    /\ pc = "start"
    /\ script = OptScript
    /\ IF files[SrcJson].exists
       THEN /\ full_data' = json_load(files[SrcJson].lines)
            /\ pc' = "opt_core"
            /\ UNCHANGED message
       ELSE /\ message' = <<FileNotFound, SrcJson>>
            /\ pc' = "raised"
            /\ UNCHANGED full_data
    /\ UNCHANGED <<rpp_lookup, rppVars, frameVars, joinVars, envVars, netVars, outVars,
                   csv_file, csv_df, zip_data, max_size, core_data, state_shards,
                   n_written>>

\* with open(path, 'w') as f: json.dump(...): open truncates the file or
\* raises (a missing directory, no permission); the dump writes the members
\* or raises part of the way and the with statement closes the file as it is
WriteOutput ==
    /\ pc = "write"
    /\ n_written < Len(Outputs)
    /\ LET out == Outputs[n_written + 1] IN
       \E outcome \in {"written", "open_failed", "write_failed"} :
          CASE outcome = "written" ->
                  /\ files' = [files EXCEPT ![out.path] = FileOf(out.lines)]
                  /\ n_written' = n_written + 1
                  /\ UNCHANGED <<pc, message>>
            [] outcome = "open_failed" ->
                  /\ message' = <<FileNotFound, out.path>>
                  /\ pc' = "raised"
                  /\ UNCHANGED <<files, n_written>>
            [] outcome = "write_failed" ->
                  /\ \E n \in 0..(IF out.lines = <<>> THEN 0 ELSE Len(out.lines) - 1) :
                        files' = [files EXCEPT ![out.path] = FileOf(Take(out.lines, n))]
                  /\ message' = <<WriteError>>
                  /\ pc' = "raised"
                  /\ UNCHANGED n_written
    /\ UNCHANGED <<rpp_lookup, rppVars, frameVars, joinVars, envVars, netVars, exit_code,
                   csv_file, csv_df, zip_data, full_data, max_size, core_data,
                   state_shards>>

\* every file is written: the sizes are printed and the function returns
EndWrite ==
    /\ pc = "write"
    /\ n_written = Len(Outputs)
    /\ pc' = "report"
    /\ UNCHANGED <<rpp_lookup, rppVars, frameVars, joinVars, envVars, netVars, outVars,
                   pipeVars>>

InitPipe ==
    /\ pc = "start"
    /\ script \in {CsvScript, OptScript}
    /\ csv_file \in IF script = CsvScript THEN {NoFile} \cup {FileOf(t) : t \in CsvTables}
                    ELSE {NoFile}
    /\ \E old \in {NoFile, OldFile} :
       \E input \in IF script = CsvScript THEN {old}
                    ELSE {NoFile} \cup {FileOf(json_dump(d)) : d \in PipeDatasets} :
          files = [path \in PipePaths |-> IF path = SrcJson THEN input ELSE old]
    /\ message = <<>>
    /\ csv_df = <<>>
    /\ zip_data = <<>>
    /\ full_data = <<>>
    /\ max_size = DefaultMaxSize
    /\ core_data = <<>>
    /\ state_shards = <<>>
    /\ n_written = 0
    /\ NoBuild

NextPipe ==
    \/ CsvCheck
    \/ CsvRead
    \/ CsvConvert
    \/ OptLoad
    \/ CreateCore
    \/ CreateShards
    \/ WriteOutput
    \/ EndWrite
    \/ Finish
    \/ ExitOnError

SpecPipe == InitPipe /\ [][NextPipe]_vars

----------------------------------------------------------------------------
(* optimize_dataset.py run again and again (SpecRerun): the dataset file   *)
(* is replaced between the runs, the output directories are kept          *)

\* what src/data/col_by_zip.json holds at the start of a run
RerunDatasets == {d \in PipeDatasets : Len(d) <= 1}

\* The run has ended with status 0; csv_to_json.py (lines 47-48) or
\* generate_full_dataset.py writes a dataset to src/data/col_by_zip.json and
\* optimize_dataset.py is started again (lines 206-208).  Nothing else on
\* disk changes between the runs.
RunAgain ==
    /\ pc = "exited"
    /\ script = OptScript
    /\ exit_code = 0
    /\ \E d \in RerunDatasets :
          files' = [files EXCEPT ![SrcJson] = FileOf(json_dump(d))]
    /\ pc' = "start"
    /\ exit_code' = "running"
    /\ message' = <<>>
    /\ full_data' = <<>>
    /\ core_data' = <<>>
    /\ state_shards' = <<>>
    /\ n_written' = 0
    /\ UNCHANGED <<rpp_lookup, rppVars, frameVars, joinVars, envVars, netVars,
                   csv_file, csv_df, zip_data, max_size>>

\* the first run starts with no output file on disk
InitRerun ==
    /\ pc = "start"
    /\ script = OptScript
    /\ csv_file = NoFile
    /\ \E input \in {NoFile} \cup {FileOf(json_dump(d)) : d \in RerunDatasets} :
          files = [path \in PipePaths |-> IF path = SrcJson THEN input ELSE NoFile]
    /\ message = <<>>
    /\ csv_df = <<>>
    /\ zip_data = <<>>
    /\ full_data = <<>>
    /\ max_size = DefaultMaxSize
    /\ core_data = <<>>
    /\ state_shards = <<>>
    /\ n_written = 0
    /\ NoBuild

NextRerun ==
    \/ OptLoad
    \/ CreateCore
    \/ CreateShards
    \/ WriteOutput
    \/ EndWrite
    \/ Finish
    \/ ExitOnError
    \/ RunAgain

SpecRerun == InitRerun /\ [][NextRerun]_vars

----------------------------------------------------------------------------
(* build_enhanced_dataset.py: the ZIP ranges of the states, the metro      *)
(* tables, the state estimates and build_comprehensive_dataset             *)

\* lines 26-41: state, then the 2-digit ZIP prefixes given to it
state_zip_ranges == <<
    <<<<"M", "A">>, <<<<"0", "1">>, <<"0", "2">>>>>>,
    <<<<"R", "I">>, <<<<"0", "2">>>>>>,
    <<<<"N", "H">>, <<<<"0", "3">>>>>>,
    <<<<"M", "E">>, <<<<"0", "4">>>>>>,
    <<<<"V", "T">>, <<<<"0", "5">>>>>>,
    <<<<"C", "T">>, <<<<"0", "6">>>>>>,
    <<<<"N", "J">>, <<<<"0", "7">>, <<"0", "8">>>>>>,
    <<<<"N", "Y">>, <<<<"1", "0">>, <<"1", "1">>, <<"1", "2">>, <<"1", "3">>, <<"1", "4">>>>>>,
    <<<<"P", "A">>, <<<<"1", "5">>, <<"1", "6">>, <<"1", "7">>, <<"1", "8">>, <<"1", "9">>>>>>,
    <<<<"D", "E">>, <<<<"1", "9">>>>>>,
    <<<<"M", "D">>, <<<<"2", "0">>, <<"2", "1">>>>>>,
    <<<<"D", "C">>, <<<<"2", "0">>>>>>,
    <<<<"V", "A">>, <<<<"2", "2">>, <<"2", "3">>, <<"2", "4">>>>>>,
    <<<<"W", "V">>, <<<<"2", "4">>, <<"2", "5">>, <<"2", "6">>>>>>,
    <<<<"N", "C">>, <<<<"2", "7">>, <<"2", "8">>>>>>,
    <<<<"S", "C">>, <<<<"2", "9">>>>>>,
    <<<<"G", "A">>, <<<<"3", "0">>, <<"3", "1">>>>>>,
    <<<<"F", "L">>, <<<<"3", "2">>, <<"3", "3">>, <<"3", "4">>>>>>,
    <<<<"A", "L">>, <<<<"3", "5">>, <<"3", "6">>>>>>,
    <<<<"T", "N">>, <<<<"3", "7">>, <<"3", "8">>>>>>,
    <<<<"M", "S">>, <<<<"3", "8">>, <<"3", "9">>>>>>,
    <<<<"K", "Y">>, <<<<"4", "0">>, <<"4", "1">>, <<"4", "2">>>>>>,
    <<<<"O", "H">>, <<<<"4", "3">>, <<"4", "4">>, <<"4", "5">>>>>>,
    <<<<"M", "I">>, <<<<"4", "8">>, <<"4", "9">>>>>>,
    <<<<"W", "I">>, <<<<"5", "3">>, <<"5", "4">>>>>>,
    <<<<"I", "A">>, <<<<"5", "0">>, <<"5", "1">>, <<"5", "2">>>>>>,
    <<<<"M", "N">>, <<<<"5", "5">>, <<"5", "6">>>>>>,
    <<<<"S", "D">>, <<<<"5", "7">>>>>>,
    <<<<"N", "D">>, <<<<"5", "8">>>>>>,
    <<<<"M", "T">>, <<<<"5", "9">>>>>>,
    <<<<"I", "L">>, <<<<"6", "0">>, <<"6", "1">>, <<"6", "2">>>>>>,
    <<<<"M", "O">>, <<<<"6", "3">>, <<"6", "4">>, <<"6", "5">>>>>>,
    <<<<"K", "S">>, <<<<"6", "6">>, <<"6", "7">>>>>>,
    <<<<"N", "E">>, <<<<"6", "8">>, <<"6", "9">>>>>>,
    <<<<"L", "A">>, <<<<"7", "0">>, <<"7", "1">>>>>>,
    <<<<"A", "R">>, <<<<"7", "1">>, <<"7", "2">>>>>>,
    <<<<"O", "K">>, <<<<"7", "3">>, <<"7", "4">>>>>>,
    <<<<"T", "X">>, <<<<"7", "5">>, <<"7", "6">>, <<"7", "7">>, <<"7", "8">>, <<"7", "9">>>>>>,
    <<<<"C", "O">>, <<<<"8", "0">>, <<"8", "1">>>>>>,
    <<<<"W", "Y">>, <<<<"8", "2">>, <<"8", "3">>>>>>,
    <<<<"U", "T">>, <<<<"8", "4">>>>>>,
    <<<<"I", "D">>, <<<<"8", "3">>>>>>,
    <<<<"A", "Z">>, <<<<"8", "5">>, <<"8", "6">>>>>>,
    <<<<"N", "V">>, <<<<"8", "9">>>>>>,
    <<<<"C", "A">>, <<<<"9", "0">>, <<"9", "1">>, <<"9", "2">>, <<"9", "3">>, <<"9", "4">>, <<"9", "5">>, <<"9", "6">>>>>>,
    <<<<"O", "R">>, <<<<"9", "7">>>>>>,
    <<<<"W", "A">>, <<<<"9", "8">>>>>>,
    <<<<"A", "K">>, <<<<"9", "9">>>>>>,
    <<<<"H", "I">>, <<<<"9", "6">>>>>> >>

\* lines 59-92: metro, rpp_all, rpp_housing, rpp_goods, rpp_other
metro_rpp == <<
    <<"NYC", 1256, 1685, 1092, 1183>>,
    <<"SF", 1723, 2418, 1194, 1421>>,
    <<"LA", 1423, 1892, 1146, 1278>>,
    <<"DC", 1352, 1784, 1123, 1239>>,
    <<"Boston", 1175, 1412, 1058, 1146>>,
    <<"Seattle", 1187, 1453, 1062, 1159>>,
    <<"Chicago", 1089, 1245, 1018, 1067>>,
    <<"Philadelphia", 1062, 1189, 987, 1038>>,
    <<"Miami", 1114, 1358, 1023, 1089>>,
    <<"Denver", 1048, 1157, 992, 1029>>,
    <<"Portland", 1098, 1256, 1021, 1073>>,
    <<"Atlanta", 947, 989, 918, 965>>,
    <<"Phoenix", 983, 1084, 941, 992>>,
    <<"Dallas", 958, 1021, 924, 972>>,
    <<"Houston", 921, 958, 897, 934>>,
    <<"Nashville", 912, 948, 889, 931>>,
    <<"Charlotte", 941, 978, 912, 954>>,
    <<"Orlando", 978, 1059, 934, 982>>,
    <<"Las Vegas", 1024, 1142, 983, 1019>>,
    <<"Columbus", 921, 897, 908, 943>>,
    <<"Indianapolis", 893, 872, 881, 916>>,
    <<"Milwaukee", 967, 1012, 938, 979>>,
    <<"Birmingham", 867, 839, 854, 892>>,
    <<"Oklahoma City", 874, 852, 869, 898>>,
    <<"Kansas City", 889, 864, 878, 915>> >>

\* lines 95-147: metro, then the 3-digit ZIP prefixes mapped to it
metro_zip_mappings == <<
    <<"NYC", <<
        <<"1", "0", "0">>, <<"1", "0", "1">>, <<"1", "0", "2">>,
        <<"1", "0", "3">>, <<"1", "0", "4">>, <<"1", "0", "5">>,
        <<"1", "0", "6">>, <<"1", "0", "7">>, <<"1", "0", "8">>,
        <<"1", "0", "9">>, <<"1", "1", "0">>, <<"1", "1", "1">>,
        <<"1", "1", "2">>, <<"1", "1", "3">>, <<"1", "1", "4">>,
        <<"1", "1", "5">>, <<"1", "1", "6">>, <<"1", "1", "7">>,
        <<"1", "1", "8">>, <<"1", "1", "9">>>>>>,
    <<"SF", <<
        <<"9", "4", "0">>, <<"9", "4", "1">>, <<"9", "4", "2">>,
        <<"9", "4", "3">>, <<"9", "4", "4">>, <<"9", "4", "5">>,
        <<"9", "4", "6">>, <<"9", "4", "7">>, <<"9", "4", "8">>,
        <<"9", "4", "9">>>>>>,
    <<"LA", <<
        <<"9", "0", "0">>, <<"9", "0", "1">>, <<"9", "0", "2">>,
        <<"9", "0", "3">>, <<"9", "0", "4">>, <<"9", "0", "5">>,
        <<"9", "0", "6">>, <<"9", "0", "7">>, <<"9", "0", "8">>,
        <<"9", "0", "9">>, <<"9", "1", "0">>, <<"9", "1", "1">>>>>>,
    <<"DC", <<
        <<"2", "0", "0">>, <<"2", "0", "1">>, <<"2", "0", "2">>,
        <<"2", "0", "3">>, <<"2", "0", "4">>, <<"2", "0", "5">>,
        <<"2", "2", "0">>, <<"2", "2", "1">>, <<"2", "2", "2">>,
        <<"2", "2", "3">>, <<"2", "2", "4">>>>>>,
    <<"Boston", <<
        <<"0", "2", "1">>, <<"0", "2", "2">>, <<"0", "2", "3">>,
        <<"0", "2", "4">>, <<"0", "2", "5">>>>>>,
    <<"Seattle", <<
        <<"9", "8", "0">>, <<"9", "8", "1">>, <<"9", "8", "2">>,
        <<"9", "8", "3">>, <<"9", "8", "4">>>>>>,
    <<"Chicago", <<
        <<"6", "0", "6">>, <<"6", "0", "7">>, <<"6", "0", "8">>,
        <<"6", "0", "9">>, <<"6", "0", "0">>, <<"6", "0", "1">>,
        <<"6", "0", "2">>, <<"6", "0", "3">>, <<"6", "0", "4">>,
        <<"6", "0", "5">>>>>>,
    <<"Philadelphia", <<
        <<"1", "9", "0">>, <<"1", "9", "1">>, <<"1", "9", "2">>,
        <<"1", "9", "3">>, <<"1", "9", "4">>, <<"1", "9", "5">>>>>>,
    <<"Miami", <<
        <<"3", "3", "0">>, <<"3", "3", "1">>, <<"3", "3", "2">>,
        <<"3", "3", "3">>, <<"3", "3", "4">>, <<"3", "3", "5">>>>>>,
    <<"Denver", <<
        <<"8", "0", "2">>, <<"8", "0", "3">>, <<"8", "0", "4">>,
        <<"8", "0", "5">>>>>>,
    <<"Portland", <<
        <<"9", "7", "2">>, <<"9", "7", "3">>, <<"9", "7", "4">>,
        <<"9", "7", "5">>>>>>,
    <<"Atlanta", <<
        <<"3", "0", "3">>, <<"3", "0", "4">>, <<"3", "0", "5">>,
        <<"3", "0", "6">>, <<"3", "0", "7">>>>>>,
    <<"Phoenix", <<
        <<"8", "5", "0">>, <<"8", "5", "1">>, <<"8", "5", "2">>,
        <<"8", "5", "3">>, <<"8", "5", "4">>>>>>,
    <<"Dallas", <<
        <<"7", "5", "2">>, <<"7", "5", "3">>, <<"7", "5", "4">>,
        <<"7", "5", "5">>, <<"7", "5", "6">>>>>>,
    <<"Houston", <<
        <<"7", "7", "0">>, <<"7", "7", "1">>, <<"7", "7", "2">>,
        <<"7", "7", "3">>, <<"7", "7", "4">>, <<"7", "7", "5">>>>>>,
    <<"Nashville", <<
        <<"3", "7", "2">>, <<"3", "7", "3">>, <<"3", "7", "4">>,
        <<"3", "7", "5">>>>>>,
    <<"Charlotte", <<
        <<"2", "8", "2">>, <<"2", "8", "3">>, <<"2", "8", "4">>>>>>,
    <<"Orlando", <<
        <<"3", "2", "8">>, <<"3", "2", "9">>, <<"3", "2", "7">>>>>>,
    <<"Las Vegas", <<
        <<"8", "9", "1">>, <<"8", "9", "2">>, <<"8", "9", "3">>,
        <<"8", "9", "4">>, <<"8", "9", "5">>>>>>,
    <<"Columbus", <<
        <<"4", "3", "2">>, <<"4", "3", "3">>, <<"4", "3", "4">>>>>>,
    <<"Indianapolis", <<
        <<"4", "6", "2">>, <<"4", "6", "3">>, <<"4", "6", "4">>,
        <<"4", "6", "5">>, <<"4", "6", "6">>>>>>,
    <<"Milwaukee", <<
        <<"5", "3", "2">>, <<"5", "3", "3">>, <<"5", "3", "4">>>>>>,
    <<"Birmingham", <<
        <<"3", "5", "2">>, <<"3", "5", "3">>>>>>,
    <<"Oklahoma City", <<
        <<"7", "3", "1">>, <<"7", "3", "2">>, <<"7", "3", "3">>>>>>,
    <<"Kansas City", <<
        <<"6", "4", "0">>, <<"6", "4", "1">>, <<"6", "4", "2">>>>>> >>

\* lines 163-215: state, rpp_all, rpp_housing, rpp_goods, rpp_other
EnhancedEstimateRows == <<
    <<"A", "L", 865, 790, 910, 895>>,
    <<"A", "K", 1250, 1400, 1180, 1200>>,
    <<"A", "Z", 970, 980, 965, 980>>,
    <<"A", "R", 850, 770, 900, 880>>,
    <<"C", "A", 1420, 1890, 1145, 1275>>,
    <<"C", "O", 1050, 1150, 990, 1030>>,
    <<"C", "T", 1150, 1350, 1050, 1120>>,
    <<"D", "E", 1020, 1080, 980, 1015>>,
    <<"F", "L", 960, 960, 965, 970>>,
    <<"G", "A", 955, 950, 960, 970>>,
    <<"H", "I", 1500, 1950, 1250, 1350>>,
    <<"I", "D", 940, 920, 950, 960>>,
    <<"I", "L", 1080, 1200, 1010, 1060>>,
    <<"I", "N", 885, 830, 925, 915>>,
    <<"I", "A", 900, 855, 930, 925>>,
    <<"K", "S", 890, 840, 925, 920>>,
    <<"K", "Y", 880, 820, 920, 910>>,
    <<"L", "A", 935, 910, 955, 960>>,
    <<"M", "E", 1055, 1130, 1000, 1045>>,
    <<"M", "D", 1120, 1300, 1030, 1090>>,
    <<"M", "A", 1175, 1410, 1055, 1145>>,
    <<"M", "I", 895, 850, 930, 920>>,
    <<"M", "N", 1020, 1095, 965, 1010>>,
    <<"M", "S", 840, 750, 890, 870>>,
    <<"M", "O", 905, 860, 935, 930>>,
    <<"M", "T", 950, 930, 960, 970>>,
    <<"N", "E", 910, 870, 935, 935>>,
    <<"N", "V", 980, 1000, 970, 985>>,
    <<"N", "H", 1030, 1100, 990, 1020>>,
    <<"N", "J", 1200, 1500, 1070, 1160>>,
    <<"N", "M", 925, 890, 945, 950>>,
    <<"N", "Y", 1250, 1650, 1090, 1180>>,
    <<"N", "C", 945, 930, 955, 960>>,
    <<"N", "D", 960, 940, 970, 980>>,
    <<"O", "H", 915, 880, 940, 940>>,
    <<"O", "K", 870, 800, 915, 900>>,
    <<"O", "R", 1100, 1250, 1025, 1075>>,
    <<"P", "A", 1085, 1180, 1020, 1070>>,
    <<"R", "I", 1100, 1250, 1020, 1080>>,
    <<"S", "C", 950, 940, 955, 965>>,
    <<"S", "D", 930, 900, 950, 955>>,
    <<"T", "N", 875, 810, 920, 905>>,
    <<"T", "X", 940, 920, 950, 955>>,
    <<"U", "T", 985, 1010, 975, 990>>,
    <<"V", "T", 1060, 1150, 1010, 1050>>,
    <<"V", "A", 990, 1045, 950, 995>>,
    <<"W", "A", 1180, 1450, 1060, 1150>>,
    <<"W", "V", 860, 780, 910, 890>>,
    <<"W", "I", 965, 970, 965, 975>>,
    <<"W", "Y", 920, 880, 940, 945>>,
    <<"D", "C", 1300, 1700, 1100, 1250>> >>

Range(seq) == {seq[k] : k \in 1..Len(seq)}

Last(S) == CHOOSE k \in S : \A j \in S : j <= k

\* download_zip_to_state_mapping (lines 44-49): every prefix of every state
\* with 000-999 behind it; a prefix given to two states is left with the
\* later one
RangeRows(zip_code) ==
    {k \in 1..Len(state_zip_ranges) : Prefix(zip_code, 2) \in Range(state_zip_ranges[k][2])}

InZipToState(zip_code) ==
    Len(zip_code) = 5 /\ AllDigits(zip_code) /\ RangeRows(zip_code) # {}

download_zip_to_state_mapping(zip_code) == state_zip_ranges[Last(RangeRows(zip_code))][1]

\* get_metro_rpp_data (lines 149-156): every prefix of every metro of
\* metro_rpp that metro_zip_mappings lists, with 00-99 behind it
MappingRows(zip_code) ==
    {k \in 1..Len(metro_rpp) :
        \E m \in 1..Len(metro_zip_mappings) :
            /\ metro_zip_mappings[m][1] = metro_rpp[k][1]
            /\ Prefix(zip_code, 3) \in Range(metro_zip_mappings[m][2])}

InMetroRpp(zip_code) ==
    Len(zip_code) = 5 /\ AllDigits(zip_code) /\ MappingRows(zip_code) # {}

get_metro_rpp_data(zip_code) ==
    LET e == metro_rpp[Last(MappingRows(zip_code))] IN
    [rpp_all |-> e[2], rpp_housing |-> e[3], rpp_goods |-> e[4], rpp_other |-> e[5]]

\* get_state_estimates (lines 161-215)
get_state_estimates ==
    [s \in {<<EnhancedEstimateRows[k][1], EnhancedEstimateRows[k][2]>> :
                k \in 1..Len(EnhancedEstimateRows)} |->
        LET e == EnhancedEstimateRows[CHOOSE k \in 1..Len(EnhancedEstimateRows) :
                     <<EnhancedEstimateRows[k][1], EnhancedEstimateRows[k][2]>> = s]
        IN [rpp_all |-> e[3], rpp_housing |-> e[4],
            rpp_goods |-> e[5], rpp_other |-> e[6]]]

\* the state tier left out: a ZIP outside the metros gets the national default
EnhancedRecord_NoStateTier(zip_code) ==
    LET state == download_zip_to_state_mapping(zip_code)
        metro == InMetroRpp(zip_code)
        rpp_data == IF metro THEN get_metro_rpp_data(zip_code) ELSE NationalRecord
    IN [rpp_all |-> rpp_data.rpp_all, rpp_housing |-> rpp_data.rpp_housing,
        rpp_goods |-> rpp_data.rpp_goods, rpp_other |-> rpp_data.rpp_other,
        state |-> state,
        cbsa_code |-> IF metro THEN MetroCode(zip_code) ELSE None]

\* lines 234-255: the record of a ZIP of zip_to_state
EnhancedRecord(zip_code) ==
    LET state == download_zip_to_state_mapping(zip_code)
        metro == InMetroRpp(zip_code)
        rpp_data == IF metro THEN get_metro_rpp_data(zip_code)
                    ELSE IF state \in DOMAIN get_state_estimates
                    THEN get_state_estimates[state]
                    ELSE NationalRecord
    IN [rpp_all |-> rpp_data.rpp_all, rpp_housing |-> rpp_data.rpp_housing,
        rpp_goods |-> rpp_data.rpp_goods, rpp_other |-> rpp_data.rpp_other,
        state |-> state,
        cbsa_code |-> IF metro THEN MetroCode(zip_code) ELSE None]

\* the 3-digit prefixes of the metros whose ZIPs are keys of zip_to_state:
\* each stands for 100 ZIPs counted in metro_matches
CountedMetroPrefixes ==
    {p \in UNION {Range(metro_zip_mappings[m][2]) : m \in 1..Len(metro_zip_mappings)} :
        /\ \E k \in 1..Len(metro_rpp) : \E m \in 1..Len(metro_zip_mappings) :
              metro_zip_mappings[m][1] = metro_rpp[k][1] /\ p \in Range(metro_zip_mappings[m][2])
        /\ \E k \in 1..Len(state_zip_ranges) : Prefix(p, 2) \in Range(state_zip_ranges[k][2])}

\* the 2-digit prefixes of zip_to_state: each stands for 1000 ZIPs
StatePrefixes == UNION {Range(state_zip_ranges[k][2]) : k \in 1..Len(state_zip_ranges)}

----------------------------------------------------------------------------
(* build_enhanced_dataset.py as a process (SpecEnh).  The dataset has      *)
(* about 90,000 ZIPs, each resolved on its own: the run is followed on the *)
(* five ZIPs the main block tests and on one more ZIP, of any 3-digit      *)
(* prefix; the counters are those of the whole dataset.                    *)

EnhScript == "build_enhanced_dataset"


Z38601 == <<"3", "8", "6", "0", "1">>

\* the ZIPs the main block tests (lines 293-294 and 305-307)
TestZips == {Z48505, Z78701, Z10001, Z38601, Z94102}

\* the last two digits of the ZIP followed besides the tested ones
ProbeSuffix == <<"0", "1">>

ProbeZips ==
    {<<Digits[a], Digits[b], Digits[c]>> \o ProbeSuffix : a, b, c \in 1..10}

\* lines 296 and 310: the comparisons of the main block, a missing ZIP or
\* component counting as 0
RppAllOf(data, zip_code) == Get(Get(data, zip_code, EmptyDict), "rpp_all", 0)

FlintBelowAustin(data) == RppAllOf(data, Z48505) < RppAllOf(data, Z78701)

CostOrdering(data) ==
    /\ RppAllOf(data, Z94102) > RppAllOf(data, Z10001)
    /\ RppAllOf(data, Z10001) > RppAllOf(data, Z38601)

\* build_comprehensive_dataset, lines 217-259: the loop over zip_to_state
EnhBuild ==
    /\ pc = "enh_build"
    /\ script = EnhScript
    /\ \E probe \in ProbeZips :
          final_data' = [z \in {w \in TestZips \cup {probe} : InZipToState(w)} |->
                            EnhancedRecord(z)]
    /\ matched_cbsa' = 100 * Cardinality(CountedMetroPrefixes)
    /\ matched_state' = 1000 * Cardinality(StatePrefixes) - 100 * Cardinality(CountedMetroPrefixes)
    /\ pc' = "save"
    /\ UNCHANGED <<pipeVars, rpp_lookup, rppVars, frameVars, zip_df, i, estimated, envVars,
                   netVars, outVars>>

\* lines 289-314: the function has returned; the main block prints what
\* its two comparisons give
EnhReport ==
    /\ pc = "report"
    /\ script = EnhScript
    /\ message' = <<IF FlintBelowAustin(final_data) THEN "Correct" ELSE "Issue",
                    IF CostOrdering(final_data) THEN "Correct" ELSE "Issue">>
    /\ exit_code' = 0
    /\ pc' = "exited"
    /\ UNCHANGED <<rpp_lookup, rppVars, frameVars, joinVars, envVars, netVars, files,
                   csv_file, csv_df, zip_data, full_data, max_size, core_data,
                   state_shards, n_written>>

InitEnh ==
    /\ pc = "enh_build"
    /\ script = EnhScript
    /\ \E old \in {Absent, OldContent} : files = [path \in Paths |-> old]
    /\ state_df = <<>>
    /\ msa_df = <<>>
    /\ hud_csv = <<>>
    /\ rpp_lookup = EmptyDict
    /\ row = NoRecord
    /\ n_rows = 0
    /\ zip_df = <<>>
    /\ i = 0
    /\ final_data = EmptyDict
    /\ matched_cbsa = 0
    /\ matched_state = 0
    /\ estimated = 0
    /\ env_key = "unset"
    /\ BEA_API_KEY = "undefined"
    /\ requests = <<>>
    /\ responses = [SARPP |-> "none", MARPP |-> "none"]
    /\ cache_file = FALSE
    /\ cache_bytes = <<>>
    /\ exit_code = "running"
    /\ NoPipeline

NextEnh ==
    \/ EnhBuild
    \/ MakeOutputDir
    \/ OpenOutput
    \/ DumpEntry
    \/ CloseOutput
    \/ EnhReport
    \/ ExitOnError

SpecEnh == InitEnh /\ [][NextEnh]_vars

----------------------------------------------------------------------------
(* Properties of the join (Spec) *)

\* rows of zip_df the join loop has resolved
Resolved == 1..i

OutOf(r) == final_data[zfill(r.ZIP, 5)]

\* the resolved record carries every component the lookup record holds
Carries(out, rec) == \A f \in DOMAIN rec : out[f] = rec[f]

MetroMatched(r) == r.CBSA # NaN /\ r.CBSA # <<>> /\ r.CBSA \in DOMAIN rpp_lookup

StateFips(r) == Prefix(zfill(r.COUNTY, 5), 2)

AllDefault(out) == \A f \in Fields : out[f] = 1000

\* C1: a resolved ZIP whose metro code is non-empty and a key of the lookup
\* has the components of that metro record, whatever the lookup holds for
\* its state.
C1_MetroRecordWins ==
    \A k \in Resolved :
        MetroMatched(zip_df[k]) =>
            Carries(OutOf(zip_df[k]), rpp_lookup[zip_df[k].CBSA])

C1_Witness ==
    \E k \in Resolved :
        /\ MetroMatched(zip_df[k])
        /\ DOMAIN rpp_lookup[zip_df[k].CBSA] = Fields
        /\ StateFips(zip_df[k]) \in DOMAIN rpp_lookup
        /\ rpp_lookup[StateFips(zip_df[k])] # rpp_lookup[zip_df[k].CBSA]

\* rows the claim C2 speaks of: no metro match, and the state code or the
\* state geography code is a key of the lookup
StateKeyed(r) ==
    /\ ~MetroMatched(r)
    /\ (r.State \in DOMAIN rpp_lookup \/ StateFips(r) \in DOMAIN rpp_lookup)

StateRecordOf(r) ==
    IF StateFips(r) \in DOMAIN rpp_lookup THEN rpp_lookup[StateFips(r)]
    ELSE rpp_lookup[r.State]

\* C2 as stated: every ZIP without a metro match whose state, or state
\* geography code, is a key of the lookup has that record's components and
\* is counted as state-matched.
C2_StateOrCodeMatch ==
    /\ \A k \in Resolved :
          StateKeyed(zip_df[k]) => Carries(OutOf(zip_df[k]), StateRecordOf(zip_df[k]))
    /\ matched_state = Cardinality({k \in Resolved : StateKeyed(zip_df[k])})

FipsMatched(r) == ~MetroMatched(r) /\ StateFips(r) \in DOMAIN rpp_lookup

\* C2 amended: every ZIP without a metro match whose county code's first two
\* characters are a key of the lookup has that record's components, and
\* exactly these ZIPs are counted as state-matched.
C2_CountyPrefixMatch ==
    /\ \A k \in Resolved :
          FipsMatched(zip_df[k]) =>
              Carries(OutOf(zip_df[k]), rpp_lookup[StateFips(zip_df[k])])
    /\ matched_state = Cardinality({k \in Resolved : FipsMatched(zip_df[k])})

C2_Witness ==
    \E k \in Resolved :
        /\ FipsMatched(zip_df[k])
        /\ zip_df[k].CBSA # NaN
        /\ DOMAIN rpp_lookup[StateFips(zip_df[k])] = Fields

Unmatched(r) ==
    /\ ~MetroMatched(r)
    /\ StateFips(r) \notin DOMAIN rpp_lookup
    /\ r.State \notin DOMAIN rpp_lookup

\* C3 as stated: a ZIP that matches neither a metro record nor a state
\* record of the lookup has all four components equal to 100.0.
C3_UnmatchedIsNational ==
    \A k \in Resolved : Unmatched(zip_df[k]) => AllDefault(OutOf(zip_df[k]))

\* C3 amended: a ZIP that matches neither a metro record nor a state record
\* of the lookup has the four components of the hard-coded estimate of
\* its state when state_estimates has one, and 100.0 four times otherwise.
C3_UnmatchedIsEstimate ==
    \A k \in Resolved :
        (~MetroMatched(zip_df[k]) /\ StateFips(zip_df[k]) \notin DOMAIN rpp_lookup) =>
            IF zip_df[k].State \in DOMAIN state_estimates
            THEN \A f \in Fields :
                    OutOf(zip_df[k])[f] = state_estimates[zip_df[k].State][f]
            ELSE AllDefault(OutOf(zip_df[k]))

C3_Witness ==
    /\ \E k \in Resolved :
          Unmatched(zip_df[k]) /\ zip_df[k].State \notin DOMAIN state_estimates
    /\ \E k \in Resolved :
          Unmatched(zip_df[k]) /\ zip_df[k].State \in DOMAIN state_estimates

InputZips == {hud_csv[k].ZIP : k \in 1..Len(hud_csv)}

\* C4: once the join has ended, the keys of the output are the ZIPs of the
\* crosswalk input, one row of the joined frame and one key for each.
C4_EveryZipOnce ==
    pc = "save" =>
        /\ DOMAIN final_data = {zfill(z, 5) : z \in InputZips}
        /\ Cardinality(DOMAIN final_data) = Cardinality(InputZips)
        /\ Len(zip_df) = Cardinality(InputZips)
        /\ \A z \in InputZips :
              Cardinality({k \in 1..Len(zip_df) : zfill(zip_df[k].ZIP, 5) = zfill(z, 5)}) = 1

C4_Witness ==
    /\ pc = "save"
    /\ rpp_lookup = EmptyDict
    /\ Len(hud_csv) > Cardinality(InputZips)
    /\ \E z \in DOMAIN final_data : AllDefault(final_data[z])

MaxRatio(z) ==
    CHOOSE m \in {hud_csv[k].RES_RATIO : k \in {j \in 1..Len(hud_csv) : hud_csv[j].ZIP = z}} :
        \A k \in 1..Len(hud_csv) : hud_csv[k].ZIP = z => hud_csv[k].RES_RATIO <= m

\* the first row, in file order, among the rows of ZIP z with the maximum ratio
DominantRow(z) ==
    hud_csv[CHOOSE k \in 1..Len(hud_csv) :
        /\ hud_csv[k].ZIP = z
        /\ hud_csv[k].RES_RATIO = MaxRatio(z)
        /\ \A j \in 1..(k - 1) :
              ~(hud_csv[j].ZIP = z /\ hud_csv[j].RES_RATIO = MaxRatio(z))]

\* C5: after de-duplication every ZIP of the input has exactly one record,
\* and it is the row of maximum residential ratio, the first in file order
\* among several of maximum ratio.
C5_DominantRowKept ==
    pc \in {"join", "save"} =>
        \A z \in InputZips :
            /\ Cardinality({k \in 1..Len(zip_df) : zip_df[k].ZIP = z}) = 1
            /\ \A k \in 1..Len(zip_df) : zip_df[k].ZIP = z => zip_df[k] = DominantRow(z)

LookupMI ==
    [g \in {StateMI} |->
        [rpp_all |-> 895, rpp_housing |-> 850, rpp_goods |-> 930, rpp_other |-> 920]]

FlintScenario ==
    /\ pc = "save"
    /\ hud_csv = <<Row48505>>
    /\ rpp_lookup = LookupMI

FlintResolved ==
    final_data =
        [z \in {Z48505} |->
            [rpp_all |-> 895, rpp_housing |-> 850, rpp_goods |-> 930,
             rpp_other |-> 920, state |-> StateMI, cbsa_code |-> None]]

\* C6 as stated: the row of ZIP 48505 (MI, no metro) against a lookup whose
\* only key is "MI" resolves to 89.5 / 85.0 / 93.0 / 92.0, state MI, no
\* metro code, counted as state-matched and not as estimated.
C6_FlintStateMatched ==
    FlintScenario => FlintResolved /\ matched_state = 1 /\ estimated = 0

\* C6 amended: the same values, state and absent metro code result, but the
\* ZIP is counted as estimated: the values are the hard-coded estimate of MI.
C6_FlintEstimated ==
    FlintScenario =>
        FlintResolved /\ matched_cbsa = 0 /\ matched_state = 0 /\ estimated = 1

C6_Witness == FlintScenario /\ FlintResolved

\* rows resolved so far whose values came from neither lookup tier
Estimated(r) == ~MetroMatched(r) /\ ~FipsMatched(r)

\* C18: during and after the join, each counter is the number of resolved
\* ZIPs whose values its tier supplied (metro record, state record, state
\* estimate or national default), so the three counters sum to the number
\* of ZIPs processed.
C18_OneCounterPerZip ==
    pc \in {"join", "save"} =>
        /\ matched_cbsa = Cardinality({k \in Resolved : MetroMatched(zip_df[k])})
        /\ matched_state = Cardinality({k \in Resolved : FipsMatched(zip_df[k])})
        /\ estimated = Cardinality({k \in Resolved : Estimated(zip_df[k])})
        /\ matched_cbsa + matched_state + estimated = i

C18_Witness ==
    /\ pc = "save"
    /\ i = 2
    /\ matched_cbsa = 1
    /\ estimated = 1
    /\ \E z \in DOMAIN final_data : AllDefault(final_data[z])

----------------------------------------------------------------------------
(* Properties of process_rpp_data (SpecRpp) *)

\* the component a line code stands for
ComponentOfLine(line_code) ==
    CASE line_code = "1" -> "rpp_all"
      [] line_code = "2" -> "rpp_goods"
      [] line_code = "3" -> "rpp_housing"
      [] line_code = "4" -> "rpp_other"

IsNumber(text) == ParseFloat(StripCommas(text)).ok
NumberOf(text) == ParseFloat(StripCommas(text)).value

BadRecord(rec) == rec.DataValue = NA \/ ~IsNumber(rec.DataValue)

\* the loop of process_rpp_data has just handled record row'
RppStep == pc \in {"rpp_state", "rpp_msa"} /\ n_rows' = n_rows + 1

RppStepEffect ==
    LET rec == row'
        geo == zfill(rec.GeoFips, IF pc = "rpp_state" THEN 2 ELSE 5)
        sets == ~BadRecord(rec) /\ rec.LineCode \in {"1", "2", "3", "4"}
    IN /\ pc' = pc
       /\ BadRecord(rec) => rpp_lookup' = rpp_lookup
       /\ sets =>
            /\ geo \in DOMAIN rpp_lookup'
            /\ ComponentOfLine(rec.LineCode) \in DOMAIN rpp_lookup'[geo]
            /\ rpp_lookup'[geo][ComponentOfLine(rec.LineCode)] = NumberOf(rec.DataValue)
       /\ \A g \in DOMAIN rpp_lookup :
            /\ g \in DOMAIN rpp_lookup'
            /\ \A f \in DOMAIN rpp_lookup[g] :
                  /\ f \in DOMAIN rpp_lookup'[g]
                  /\ ~(sets /\ g = geo /\ f = ComponentOfLine(rec.LineCode)) =>
                        rpp_lookup'[g][f] = rpp_lookup[g][f]

\* C10: no record makes process_rpp_data leave its loop; a record whose value
\* is "(NA)" or not a number leaves the lookup as it is; any other record of
\* line code 1-4 sets its component of its geography to its value; every
\* other component already in the lookup stays.
C10_BadRecordsSkipped == [][RppStep => RppStepEffect]_vars

C10_Witness ==
    /\ pc = "rpp_msa"
    /\ row.DataValue = <<"n", "/", "a">>
    /\ row.LineCode = "1"
    /\ \E g \in DOMAIN rpp_lookup : DOMAIN rpp_lookup[g] = {"rpp_all", "rpp_housing"}

\* C19: a key made from a state-level record has exactly 2 characters and a
\* key made from a metro-level record exactly 5: while the state loop runs
\* every key of the lookup has 2 characters, and afterwards 2 or 5.
C19_KeyLengths ==
    /\ pc = "rpp_state" => \A g \in DOMAIN rpp_lookup : Len(g) = 2
    /\ pc \in {"rpp_msa", "rpp_return"} => \A g \in DOMAIN rpp_lookup : Len(g) \in {2, 5}

----------------------------------------------------------------------------
(* Properties of the runs (SpecRun) *)

\* the file is as an earlier run left it
Untouched(path) == files[path] \in {Absent, OldContent}

\* the file holds the whole of the data this run dumps
WholeNew(path) == files[path] = Content(final_data, Size(final_data), TRUE)

\* C7: when a run has failed (exit status 1), every output file holds
\* either its complete previous content or the complete new content.
C7_AllOrNothing ==
    (pc = "exited" /\ exit_code = 1) =>
        \A path \in Paths : Untouched(path) \/ WholeNew(path)

FetchFailed == \E table \in DOMAIN responses : responses[table] \in FailureKinds

\* C8: a run in which a fetch from the statistical source failed ends with
\* exit status 1, having performed no join and written no output file.
C8_FetchFailureAborts ==
    (pc = "exited" /\ FetchFailed) =>
        /\ exit_code = 1
        /\ i = 0
        /\ final_data = EmptyDict
        /\ \A path \in Paths : Untouched(path)

BeaRequests == {k \in 1..Len(requests) : requests[k] \in {"SARPP", "MARPP"}}

\* C9: with BEA_API_KEY unset or empty in the environment no request is
\* issued to the statistical source, and the run ends with exit status 1.
C9_NoCredentialNoRequest ==
    env_key \in {"unset", ""} =>
        /\ BeaRequests = {}
        /\ pc = "exited" => exit_code = 1

----------------------------------------------------------------------------
(* Properties of the download cache (SpecCache) *)

\* C20: while the cached archive exists no step issues a request, removes
\* the file or changes its content; a call without a cached archive issues
\* exactly one request, and when that call raises no cache file exists.
C20_DownloadCache ==
    [][/\ cache_file =>
            /\ requests' = requests
            /\ cache_file'
            /\ cache_bytes' = cache_bytes
       /\ (pc = "download" /\ ~cache_file) =>
            /\ Len(requests') = Len(requests) + 1
            /\ pc' = "raised" => ~cache_file']_vars

\* a call served from an archive cached by an earlier run, after a failed
\* download, while HUD serves another archive
C20_Witness ==
    /\ pc = "read_csv"
    /\ cache_file
    /\ Len(requests) = 2
    /\ cache_bytes # hud_csv

----------------------------------------------------------------------------
(* Properties of create_core_dataset and create_state_shards (SpecOpt) *)

\* create_state_shards has returned
Sharded == pc \in {"write", "opt_again"} /\ script = OptScript

\* create_core_dataset has returned
CoreBuilt == pc \in {"opt_shards", "write", "opt_again"}

ShardKeys == UNION {KeySet(state_shards[k].value) : k \in 1..Len(state_shards)}

\* C14: the keys of the core dataset and of all state shards together are
\* exactly the keys of the full dataset.
C14_ShardsCoverFull ==
    Sharded => KeySet(core_data) \cup ShardKeys = KeySet(full_data)

C14_Witness ==
    /\ pc = "write"
    /\ Len(core_data) >= 1
    /\ Len(state_shards) >= 2
    /\ \E z \in KeySet(full_data) : z \notin KeySet(core_data)
    /\ \E k \in 1..Len(full_data) : "state" \notin DOMAIN full_data[k].value

\* the shard a member belongs to by its own record
HomeShard(entry) == IF "state" \in DOMAIN entry.value THEN entry.value.state ELSE StateXX

\* C15: every ZIP of the full dataset is in the shard named by its record's
\* state field (XX without one) and in no other; shard names are distinct
\* and no shard is empty.
C15_OneShardPerZip ==
    Sharded =>
        /\ Cardinality(KeySet(state_shards)) = Len(state_shards)
        /\ \A k \in 1..Len(full_data) :
              /\ HomeShard(full_data[k]) \in KeySet(state_shards)
              /\ \A j \in 1..Len(state_shards) :
                    full_data[k].key \in KeySet(state_shards[j].value)
                        <=> state_shards[j].key = HomeShard(full_data[k])
        /\ \A j \in 1..Len(state_shards) :
              /\ state_shards[j].value # <<>>
              /\ DistinctKeys(state_shards[j].value)

C15_Witness ==
    /\ pc = "write"
    /\ Len(state_shards) = 3
    /\ StateXX \in KeySet(state_shards)
    /\ Z78701 \in KeySet(Lookup(state_shards, StateXX))

MetroKeys == KeySet(SelectSeq(full_data, IsMetro))

\* C17 as stated: a ZIP that is in the core dataset through a curated prefix
\* only is there only if every metro ZIP of the full dataset is there too.
C17_AllMetroFirst ==
    CoreBuilt =>
        ((\E z \in KeySet(core_data) : z \notin MetroKeys)
            => MetroKeys \subseteq KeySet(core_data))

\* the first MetroZipCap metro ZIPs of the full dataset, in collection order
TopMetro == Take(Keys(SelectSeq(full_data, IsMetro)), MetroZipCap)

\* the first PerPrefixCap ZIPs of the full dataset that start with prefix
FirstOfPrefix(prefix) ==
    LET starts(entry) == StartsWith(entry.key, prefix) IN
    KeySet(Take(SelectSeq(full_data, starts), PerPrefixCap))

PrefixKeys ==
    UNION {FirstOfPrefix(major_city_prefixes[k]) : k \in 1..Len(major_city_prefixes)}

Smaller(a, b) == IF a < b THEN a ELSE b

\* C17 amended: the core dataset holds the first max_size ZIPs of the first
\* MetroZipCap metro ZIPs (cbsa_code starting with METRO_) in collection
\* order followed by the first PerPrefixCap ZIPs of each curated prefix, each
\* ZIP once; a ZIP outside those metro ZIPs is there only if all of them
\* are, and comes after them.
C17_CappedMetroFirst ==
    CoreBuilt =>
        LET top == TopMetro
            top_keys == {top[k] : k \in 1..Len(top)}
            listed == top_keys \cup PrefixKeys
            core_keys == KeySet(core_data)
        IN /\ core_keys \subseteq listed
           /\ Len(core_data) = Smaller(max_size, Cardinality(listed))
           /\ Take(Keys(core_data), Len(top)) = Take(top, Len(core_data))
           /\ (\E z \in core_keys : z \notin top_keys) => top_keys \subseteq core_keys

C17_Witness ==
    /\ pc = "write"
    /\ Cardinality(MetroKeys) > MetroZipCap
    /\ max_size = DefaultMaxSize
    /\ Z10002 \in KeySet(core_data)
    /\ \E z \in MetroKeys : z \notin KeySet(core_data)

----------------------------------------------------------------------------
(* Properties of csv_to_json.py and optimize_dataset.py as processes       *)
(* (SpecPipe)                                                              *)

\* the file the running script needs is missing
InputAbsent ==
    IF script = CsvScript THEN ~csv_file.exists ELSE ~files[SrcJson].exists

\* the path the running script expects its input at
InputPath == IF script = CsvScript THEN OutputCsv ELSE SrcJson

\* C11: when the input file of csv_to_json.py (data/col_by_zip.csv) or of
\* optimize_dataset.py (src/data/col_by_zip.json) is missing, the script
\* goes no further than the failed check, ends with exit status 1 and an
\* error naming the expected path, and no step creates or changes a file.
C11_MissingInputFails ==
    /\ [](InputAbsent =>
            /\ pc \in {"start", "raised", "exited"}
            /\ pc = "exited" =>
                  /\ exit_code = 1
                  /\ Len(message) = 2
                  /\ message[2] = InputPath)
    /\ [][InputAbsent => files' = files]_vars

\* optimize_dataset.py has ended without its input, files of an earlier
\* run being in place
C11_Witness ==
    /\ pc = "exited"
    /\ script = OptScript
    /\ InputAbsent
    /\ files[CorePublic] = OldFile

\* the run of csv_to_json.py has ended with status 0
CsvDone == script = CsvScript /\ pc = "exited" /\ exit_code = 0

\* the record a line of the CSV stands for: the amounts rounded to 2
\* decimals, the state and the metro code as the text of the line
RecordOfLine(line) ==
    [rpp_all     |-> round2(ParseScaled(line.rpp_all, 3).value),
     rpp_housing |-> round2(ParseScaled(line.rpp_housing, 3).value),
     rpp_goods   |-> round2(ParseScaled(line.rpp_goods, 3).value),
     rpp_other   |-> round2(ParseScaled(line.rpp_other, 3).value),
     state       |-> line.state,
     cbsa_code   |-> IF line.cbsa_code = <<>> THEN None ELSE line.cbsa_code]

\* C12: after a run of csv_to_json.py, reading public/col_by_zip.json back
\* gives one entry per line of the CSV, keyed by the ZIP padded to 5
\* characters, with the four amounts rounded to 2 decimals and the state
\* and cbsa_code equal to the text of the line.
C12_RoundTrip ==
    CsvDone =>
        LET lines == csv_file.lines
            back == json_load(files[PublicJson].lines)
        IN /\ Len(back) = Len(lines)
           /\ KeySet(back) = {zfill(lines[k].zip, 5) : k \in 1..Len(lines)}
           /\ \A k \in 1..Len(lines) :
                 Lookup(back, zfill(lines[k].zip, 5)) = RecordOfLine(lines[k])

\* csv_to_json has built its dictionary
CsvConverted == script = CsvScript /\ pc \in {"write", "report"}

\* C13: every record csv_to_json builds has a cbsa_code field, which is
\* None exactly when the line has no metro code and otherwise the metro
\* code of the line, unchanged.
C13_CbsaCodeKept ==
    CsvConverted =>
        \A k \in 1..Len(csv_file.lines) :
            LET line == csv_file.lines[k]
                record == Lookup(zip_data, zfill(line.zip, 5))
            IN /\ "cbsa_code" \in DOMAIN record
               /\ record.cbsa_code = None <=> line.cbsa_code = <<>>
               /\ line.cbsa_code # <<>> => record.cbsa_code = line.cbsa_code

----------------------------------------------------------------------------
(* The surviving crosswalk row (Spec) *)

\* the rows of ZIP z with the maximum ratio
DominantRows(z) ==
    {k \in 1..Len(hud_csv) : hud_csv[k].ZIP = z /\ hud_csv[k].RES_RATIO = MaxRatio(z)}

\* C21: the record that survives de-duplication is one whole row of the
\* crosswalk, a row of maximum ratio of its ZIP, and a ZIP whose rows of
\* maximum ratio all have a blank metro code is output with cbsa_code None.
C21_WholeRowSurvives ==
    pc = "save" =>
        \A z \in InputZips :
            /\ \E k \in DominantRows(z) :
                  \A j \in 1..Len(zip_df) : zip_df[j].ZIP = z => zip_df[j] = hud_csv[k]
            /\ (\A k \in DominantRows(z) : hud_csv[k].CBSA = NaN)
                  => final_data[zfill(z, 5)].cbsa_code = None

----------------------------------------------------------------------------
(* build_lookup of build_cost_of_living_dataset.py (SpecRun) *)

\* a run of build_cost_of_living_dataset.py has ended after both RPP tables
\* arrived and the crosswalk was read and de-duplicated
BldEnded ==
    /\ script = BldScript
    /\ pc = "exited"
    /\ responses = [SARPP |-> "data", MARPP |-> "data"]
    /\ zip_df # <<>>

\* the geography codes of the RPP records fetched
RppGeos == {state_df[k].GeoFips : k \in 1..Len(state_df)}
               \cup {msa_df[k].GeoFips : k \in 1..Len(msa_df)}

\* the row's CBSA, or else its state FIPS, has an RPP record
Covered(r) ==
    \/ r.CBSA # NaN /\ zfill(r.CBSA, 5) \in RppGeos
    \/ Prefix(r.COUNTY, 2) \in RppGeos

\* C22: when build_cost_of_living_dataset.py has run with RPP data and a
\* crosswalk, every ZIP of the de-duplicated crosswalk whose CBSA or state
\* FIPS has an RPP record is a line of the output CSV this run wrote.
C22_NoZipDropped ==
    BldEnded =>
        \A k \in 1..Len(zip_df) :
            Covered(zip_df[k]) =>
                /\ files[OutputCsv].exists
                /\ files[OutputCsv] # OldContent
                /\ zfill(zip_df[k].ZIP, 5) \in DOMAIN files[OutputCsv].of

----------------------------------------------------------------------------
(* Incomplete lookup records in the join (Spec) *)

\* the lookup record a matched row resolves to
MatchedRecord(r) ==
    IF MetroMatched(r) THEN rpp_lookup[r.CBSA] ELSE rpp_lookup[StateFips(r)]

\* C23: a resolved ZIP matched to a metro or state record of the lookup has
\* each component the record holds and 100.0 for each component it lacks,
\* a record with no component included; the ZIP is counted in the tier of
\* the match.
C23_MissingComponentsDefault ==
    pc \in {"join", "save"} =>
        /\ \A k \in Resolved :
              MetroMatched(zip_df[k]) \/ FipsMatched(zip_df[k]) =>
                  \A f \in Fields :
                      OutOf(zip_df[k])[f] =
                          IF f \in DOMAIN MatchedRecord(zip_df[k])
                          THEN MatchedRecord(zip_df[k])[f]
                          ELSE NationalAverage
        /\ Cardinality({k \in Resolved : MetroMatched(zip_df[k])}) = matched_cbsa
        /\ Cardinality({k \in Resolved : FipsMatched(zip_df[k])}) = matched_state

\* a ZIP is matched to a metro record with no component while its state
\* has an estimate, and comes out with 100.0 four times
C23_Witness ==
    /\ pc = "save"
    /\ \E k \in Resolved :
          /\ MetroMatched(zip_df[k])
          /\ MatchedRecord(zip_df[k]) = EmptyDict
          /\ zip_df[k].State \in DOMAIN state_estimates
          /\ AllDefault(OutOf(zip_df[k]))
          /\ matched_cbsa >= 1

----------------------------------------------------------------------------
(* Properties of build_enhanced_dataset.py (SpecEnh) *)

\* build_comprehensive_dataset has returned its dataset
EnhBuilt == script = EnhScript /\ pc # "enh_build"

\* C24: every ZIP that get_metro_rpp_data maps to a metro's values is a key
\* of the dataset build_comprehensive_dataset returns (the loop of line 234
\* visits it), with the four values of that metro and cbsa_code 'METRO_'
\* and the first three digits.
C24_MetroZipsCovered ==
    EnhBuilt =>
        \A z \in TestZips \cup ProbeZips :
            InMetroRpp(z) =>
                /\ InZipToState(z)
                /\ z \in DOMAIN final_data =>
                      /\ \A f \in Fields : final_data[z][f] = get_metro_rpp_data(z)[f]
                      /\ final_data[z].cbsa_code = MetroCode(z)

\* C25: the dataset build_comprehensive_dataset returns holds the five ZIPs
\* the main block tests, with rpp_all of 48505 below that of 78701, and
\* rpp_all of 94102 above 140.0 and above that of 10001, itself above that
\* of 38601; the main block reports both comparisons as correct.
C25_SanityChecksPass ==
    /\ EnhBuilt =>
          /\ TestZips \subseteq DOMAIN final_data
          /\ final_data[Z48505].rpp_all < final_data[Z78701].rpp_all
          /\ final_data[Z94102].rpp_all > 1400
          /\ final_data[Z94102].rpp_all > final_data[Z10001].rpp_all
          /\ final_data[Z10001].rpp_all > final_data[Z38601].rpp_all
    /\ (script = EnhScript /\ pc = "exited" /\ exit_code = 0) =>
          message = <<"Correct", "Correct">>

\* the run has ended with status 0, both files written
C25_Witness ==
    /\ script = EnhScript
    /\ pc = "exited"
    /\ exit_code = 0
    /\ files[PublicJson] = Content(final_data, Size(final_data), TRUE)
    /\ final_data[Z94102].cbsa_code = MetroCode(Z94102)
    /\ final_data[Z48505].cbsa_code = None


----------------------------------------------------------------------------
(* The core dataset and the shards as projections (SpecPipe) *)

\* every member of part is a member of full_data, with the same record
ProjectionOfFull(part) ==
    \A k \in 1..Len(part) :
        /\ part[k].key \in KeySet(full_data)
        /\ part[k].value = Lookup(full_data, part[k].key)

\* the run of optimize_dataset.py has ended with status 0
OptDone == script = OptScript /\ pc = "exited" /\ exit_code = 0

\* C26: every record of the core dataset and of every state shard, as built
\* and as read back from the files of a successful run, equals the record of
\* the same ZIP in the full dataset, and no step of optimize_dataset.py
\* changes src/data/col_by_zip.json.
C26_PureProjections ==
    /\ [](script = OptScript =>
            /\ ProjectionOfFull(core_data)
            /\ \A s \in 1..Len(state_shards) : ProjectionOfFull(state_shards[s].value))
    /\ [](OptDone =>
            /\ ProjectionOfFull(json_load(files[CorePublic].lines))
            /\ ProjectionOfFull(json_load(files[CoreSrc].lines))
            /\ \A s \in 1..Len(state_shards) :
               \A dir \in {PublicStates, SrcStates} :
                  ProjectionOfFull(json_load(files[ShardPath(dir, state_shards[s].key)].lines)))
    /\ [][script = OptScript => files'[SrcJson] = files[SrcJson]]_vars

\* a successful run over a dataset with a metro ZIP and two states: the core
\* dataset and two shards hold records
C26_Witness ==
    /\ OptDone
    /\ Len(core_data) > 0
    /\ Len(state_shards) = 2
    /\ files[CorePublic].lines # <<>>


----------------------------------------------------------------------------
(* The shard directories after repeated runs (SpecRerun) *)

\* C27: when a run of optimize_dataset.py has ended with status 0, each of
\* the two shard directories holds a file for a state exactly when the
\* dataset the run loaded has a ZIP of that state, and the file holds that
\* run's shard; no file of a state of an earlier run's dataset remains.
C27_NoStaleShards ==
    OptDone =>
        \A dir \in {PublicStates, SrcStates} :
        \A state \in PipeStates :
            IF state \in KeySet(state_shards)
            THEN files[ShardPath(dir, state)] = FileOf(json_dump(Lookup(state_shards, state)))
            ELSE ~files[ShardPath(dir, state)].exists


----------------------------------------------------------------------------
(* The hard-coded tables (SpecPipe): the fallback file of a successful run *)
(* of optimize_dataset.py, read back                                       *)

\* the run has ended with status 0 and both fallback files hold the dump
FallbackWritten ==
    /\ OptDone
    /\ files[FallbackPublic] = FileOf(FallbackLines)
    /\ files[FallbackSrc] = FileOf(FallbackLines)

\* C28: state_estimates of generate_full_dataset.py and get_state_estimates
\* of build_enhanced_dataset.py have the same states and the same four
\* values for each, and the state_rpp of the fallback file written by
\* optimize_dataset.py has the same states, each with the rpp_all estimate.
C28_EstimateTablesAgree ==
    OptDone =>
        LET fallback == FallbackLoad(files[FallbackPublic].lines) IN
        /\ DOMAIN get_state_estimates = DOMAIN state_estimates
        /\ \A s \in DOMAIN state_estimates : get_state_estimates[s] = state_estimates[s]
        /\ KeySet(fallback.state_rpp) = DOMAIN state_estimates
        /\ Len(fallback.state_rpp) = Cardinality(DOMAIN state_estimates)
        /\ \A s \in DOMAIN state_estimates :
              Lookup(fallback.state_rpp, s) = state_estimates[s].rpp_all

\* the fallback file is written and gives Michigan the 89.5 of both
\* estimate tables
C28_Witness ==
    /\ FallbackWritten
    /\ Lookup(FallbackLoad(files[FallbackSrc].lines).state_rpp, StateMI) = 895
    /\ state_estimates[StateMI].rpp_all = 895
    /\ get_state_estimates[StateMI].rpp_all = 895

\* C29: in the fallback file written by optimize_dataset.py, every 5-digit
\* ZIP has its 2-digit prefix or, failing that, its 1-digit prefix among the
\* keys of zip_to_state, and every state zip_to_state maps to is a key of
\* state_rpp.
C29_FallbackTotal ==
    OptDone =>
        LET fallback == FallbackLoad(files[FallbackPublic].lines)
            prefixes == KeySet(fallback.zip_to_state)
            states == KeySet(fallback.state_rpp)
        IN /\ \A zip_code \in ProbeZips \cup TestZips :
                 \/ Prefix(zip_code, 2) \in prefixes
                 \/ Prefix(zip_code, 1) \in prefixes
           /\ \A k \in 1..Len(fallback.zip_to_state) :
                 fallback.zip_to_state[k].value \in states

\* the fallback file is written; 02101 has no 2-digit key and is found by
\* its 1-digit prefix, whose state has an estimate
C29_Witness ==
    /\ FallbackWritten
    /\ LET fallback == FallbackLoad(files[FallbackPublic].lines) IN
       /\ Prefix(Z02101, 2) \notin KeySet(fallback.zip_to_state)
       /\ Lookup(fallback.zip_to_state, Prefix(Z02101, 1)) = StateMA
       /\ Lookup(fallback.state_rpp, StateMA) = 1175


----------------------------------------------------------------------------
(* The two copies of each output (SpecPipe) *)

\* C30: when the run of csv_to_json.py or optimize_dataset.py has ended, with
\* status 0 or 1, each output has the same content under public/ and under
\* src/data/: the full lookup, the core dataset, every state shard and the
\* fallback table.
C30_CopiesIdentical ==
    pc = "exited" =>
        IF script = CsvScript
        THEN files[PublicJson] = files[SrcJson]
        ELSE /\ files[CorePublic] = files[CoreSrc]
             /\ \A state \in PipeStates :
                   files[ShardPath(PublicStates, state)] = files[ShardPath(SrcStates, state)]
             /\ files[FallbackPublic] = files[FallbackSrc]

====
